---- MODULE Spec2Model ----
(***************************************************************************)
(* emx-note: the validated text-edit engine (src/src/edit.rs), the         *)
(* reference extractor (src/src/markdown.rs) and the TASK.md state machine *)
(* (src/src/cmd/task/*.rs).                                                *)
(*                                                                         *)
(* A Rust string is modelled as a sequence of one-character strings, so    *)
(* that substring search, line splitting and trimming are computed the way *)
(* the code computes them.  A function of the code is one operator of the  *)
(* same name; where the code binds an intermediate value with `let`, the   *)
(* operator hands it to a helper operator as an argument.                  *)
(***************************************************************************)
EXTENDS Integers, Sequences, FiniteSets, TLC

VARIABLES
    econtent,   \* edit engine: the `content` argument of apply_edits
    eedits,     \* edit engine: the `edits` argument of apply_edits
    eresult,    \* edit engine: the Result returned by apply_edits (or NoResult)
    taskfile,   \* TASK.md on disk: None while it does not exist, else Some(content)
    last,       \* the command that just returned, with its arguments and outcome
    holder,     \* per task id: the agent whose take succeeded last, until a release
    race,       \* two concurrent commands: what each has read and done so far
    capsa,      \* note resolver: the capsa directory (daily, note and index files)
    reference,  \* note resolver: the `reference` argument of resolve_note
    resolved    \* note resolver: the ResolvedNote returned (or Unresolved)

evars == <<econtent, eedits, eresult>>
tvars == <<taskfile, last, holder>>
rvars == <<capsa, reference, resolved>>
vars == <<econtent, eedits, eresult, taskfile, last, holder, race, capsa, reference, resolved>>

----------------------------------------------------------------------------
(* Strings                                                                 *)

NL == "\n"
CR == "\r"
SP == " "

\* char::is_whitespace, restricted to the characters the model uses
IsWs(c) == c \in {SP, NL, CR}

MinOf(S) == CHOOSE x \in S : \A y \in S : x <= y
MaxOf(S) == CHOOSE x \in S : \A y \in S : y <= x

\* p occurs in s at (1-based) position i
OccAt(s, p, i) ==
    /\ i >= 1
    /\ i + Len(p) - 1 <= Len(s)
    /\ SubSeq(s, i, i + Len(p) - 1) = p

\* str::find: the 1-based position of the first occurrence at or after i,
\* 0 for None
RECURSIVE FindFrom(_, _, _)
FindFrom(s, p, i) ==
    IF i + Len(p) - 1 > Len(s) THEN 0
    ELSE IF SubSeq(s, i, i + Len(p) - 1) = p THEN i
    ELSE FindFrom(s, p, i + 1)

Find(s, p) == FindFrom(s, p, 1)

\* str::starts_with / str::ends_with / str::contains
StartsWith(s, p) == Len(p) <= Len(s) /\ SubSeq(s, 1, Len(p)) = p
EndsWith(s, p) == Len(p) <= Len(s) /\ SubSeq(s, Len(s) - Len(p) + 1, Len(s)) = p
Contains(s, p) == Find(s, p) # 0

\* str::matches(p).count() for a non-empty p: occurrences found scanning left
\* to right, each search resuming after the end of the previous match
RECURSIVE MatchesFrom(_, _, _)
RECURSIVE MatchesAfter(_, _, _)
MatchesAfter(s, p, j) == IF j = 0 THEN 0 ELSE 1 + MatchesFrom(s, p, j + Len(p))

MatchesFrom(s, p, i) == MatchesAfter(s, p, FindFrom(s, p, i))

\* str::matches(p).count(); the empty pattern matches at every boundary
MatchCount(s, p) == IF p = <<>> THEN Len(s) + 1 ELSE MatchesFrom(s, p, 1)

\* s with the occurrence of old at i replaced by new (s itself when i = 0)
ReplaceAt(s, old, new, i) ==
    IF i = 0 THEN s
    ELSE SubSeq(s, 1, i - 1) \o new \o SubSeq(s, i + Len(old), Len(s))

\* str::replacen(old, new, 1)
ReplaceFirst(s, old, new) == ReplaceAt(s, old, new, Find(s, old))

\* str::lines(), one line that was ended by "\n": a "\r" before the "\n"
\* belongs to the line ending
StripCR(line) ==
    IF line # <<>> /\ line[Len(line)] = CR THEN SubSeq(line, 1, Len(line) - 1) ELSE line

\* str::lines(): split at "\n" or "\r\n"; a final empty piece is not a line
RECURSIVE LinesFrom(_, _)
RECURSIVE LinesAt(_, _, _)
LinesAt(s, i, j) ==
    IF j = 0 THEN <<SubSeq(s, i, Len(s))>>
    ELSE <<StripCR(SubSeq(s, i, j - 1))>> \o LinesFrom(s, j + 1)

LinesFrom(s, i) ==
    IF i > Len(s) THEN <<>> ELSE LinesAt(s, i, FindFrom(s, <<NL>>, i))

Lines(s) == LinesFrom(s, 1)

\* [&str]::join("\n")
RECURSIVE JoinNL(_)
JoinNL(ls) ==
    IF ls = <<>> THEN <<>>
    ELSE IF Len(ls) = 1 THEN ls[1]
    ELSE ls[1] \o <<NL>> \o JoinNL(Tail(ls))

\* the first position at or after i, and the last at or before i, that holds
\* no whitespace (Len(s) + 1 and 0 when there is none)
RECURSIVE FirstNonWs(_, _)
FirstNonWs(s, i) ==
    IF i > Len(s) THEN Len(s) + 1 ELSE IF IsWs(s[i]) THEN FirstNonWs(s, i + 1) ELSE i

RECURSIVE LastNonWs(_, _)
LastNonWs(s, i) ==
    IF i < 1 THEN 0 ELSE IF IsWs(s[i]) THEN LastNonWs(s, i - 1) ELSE i

\* str::trim_end / str::trim
TrimEnd(s) == SubSeq(s, 1, LastNonWs(s, Len(s)))
Trim(s) == SubSeq(s, FirstNonWs(s, 1), LastNonWs(s, Len(s)))

----------------------------------------------------------------------------
(* Option<T>: None is the empty tuple, Some(x) the one-element tuple       *)

None == <<>>
Some(x) == <<x>>
IsSome(o) == o # <<>>
Unwrap(o) == o[1]

----------------------------------------------------------------------------
(* Edit engine: src/src/edit.rs                                            *)

\* enum EditOp
Replace(old, new) == [op |-> "Replace", old |-> old, new |-> new]
InsertAtLine(line, content) == [op |-> "InsertAtLine", line |-> line, content |-> content]
AppendOp(content) == [op |-> "Append", content |-> content]
DeleteLine(content) == [op |-> "DeleteLine", content |-> content]

\* enum ValidationError
NotFound(pattern) == [kind |-> "NotFound", pattern |-> pattern]
MultipleMatches(pattern, count) ==
    [kind |-> "MultipleMatches", pattern |-> pattern, count |-> count]
InvalidLine(line, max_line) ==
    [kind |-> "InvalidLine", line |-> line, max_line |-> max_line]

\* Result<String, ValidationError>
Ok(s) == [ok |-> TRUE, val |-> s]
Err(e) == [ok |-> FALSE, err |-> e]

\* the suffix InsertAtLine and DeleteLine put back after join("\n")
Suffix(content) == IF EndsWith(content, <<NL>>) THEN <<NL>> ELSE <<>>

\* a Replace that accepts a unique match and returns the content as it is
ReplaceCountedKept(content, old, new, count) ==
    IF count = 0 THEN Err(NotFound(old))
    ELSE IF count = 1 THEN Ok(content)
    ELSE Err(MultipleMatches(old, count))

\* EditOp::Replace, with count = content.matches(old).count()
ReplaceCounted(content, old, new, count) ==
    IF count = 0 THEN Err(NotFound(old))
    ELSE IF count = 1 THEN Ok(ReplaceFirst(content, old, new))
    ELSE Err(MultipleMatches(old, count))

ReplaceEdit(content, old, new) ==
    ReplaceCounted(content, old, new, MatchCount(content, old))

\* an InsertAtLine that puts the new line one place too early
InsertInLinesEarly(content, lines, line, new_content) ==
    IF line > Len(lines) THEN Err(InvalidLine(line, Len(lines)))
    ELSE IF line = 0 THEN Ok(JoinNL(<<new_content>> \o lines) \o Suffix(content))
    ELSE Ok(JoinNL(SubSeq(lines, 1, line - 1) \o <<new_content>>
                   \o SubSeq(lines, line, Len(lines)))
            \o Suffix(content))

\* EditOp::InsertAtLine, with lines = content.lines()
InsertInLines(content, lines, line, new_content) ==
    IF line > Len(lines) THEN Err(InvalidLine(line, Len(lines)))
    ELSE Ok(JoinNL(SubSeq(lines, 1, line) \o <<new_content>>
                   \o SubSeq(lines, line + 1, Len(lines)))
            \o Suffix(content))

InsertAtLineEdit(content, line, new_content) ==
    InsertInLines(content, Lines(content), line, new_content)

\* an Append that never inserts a newline
AppendEditPlain(content, new_content) == Ok(content \o new_content)

\* EditOp::Append
AppendEdit(content, new_content) ==
    Ok(content
       \o (IF content = <<>> THEN <<>>
           ELSE IF EndsWith(content, <<NL>>) THEN <<>>
           ELSE <<NL>>)
       \o new_content)

\* a DeleteLine that finds the line and leaves the content as it is
DeleteKeptNothing(content, lines, new_lines, line_to_delete) ==
    IF Len(new_lines) = Len(lines) THEN Err(NotFound(line_to_delete))
    ELSE Ok(content)

\* EditOp::DeleteLine, with lines = content.lines() and the lines kept
DeleteKept(content, lines, new_lines, line_to_delete) ==
    IF Len(new_lines) = Len(lines) THEN Err(NotFound(line_to_delete))
    ELSE Ok(JoinNL(new_lines) \o Suffix(content))

DeleteInLines(content, lines, line_to_delete) ==
    DeleteKept(content, lines, SelectSeq(lines, LAMBDA l : l # line_to_delete),
               line_to_delete)

DeleteLineEdit(content, line_to_delete) ==
    DeleteInLines(content, Lines(content), line_to_delete)

apply_single_edit(content, edit) ==
    CASE edit.op = "Replace" -> ReplaceEdit(content, edit.old, edit.new)
      [] edit.op = "InsertAtLine" -> InsertAtLineEdit(content, edit.line, edit.content)
      [] edit.op = "Append" -> AppendEdit(content, edit.content)
      [] edit.op = "DeleteLine" -> DeleteLineEdit(content, edit.content)

\* the loop of apply_edits: `result = apply_single_edit(&result, edit)?`;
\* r is what apply_single_edit returned for the k-th edit
RECURSIVE ApplyLoop(_, _, _)
RECURSIVE ApplyStep(_, _, _)
ApplyStep(r, edits, k) == IF r.ok THEN ApplyLoop(r.val, edits, k + 1) ELSE r

ApplyLoop(result, edits, k) ==
    IF k > Len(edits) THEN Ok(result)
    ELSE ApplyStep(apply_single_edit(result, edits[k]), edits, k)

\* a faulty apply_edits that returns what the ops before the failing one produced
RECURSIVE ApplyLoopPartial(_, _, _)
RECURSIVE ApplyStepPartial(_, _, _, _)
ApplyStepPartial(result, r, edits, k) ==
    IF r.ok THEN ApplyLoopPartial(r.val, edits, k + 1) ELSE Ok(result)

ApplyLoopPartial(result, edits, k) ==
    IF k > Len(edits) THEN Ok(result)
    ELSE ApplyStepPartial(result, apply_single_edit(result, edits[k]), edits, k)

apply_edits_partial(content, edits) == ApplyLoopPartial(content, edits, 1)

apply_edits(content, edits) == ApplyLoop(content, edits, 1)

----------------------------------------------------------------------------
(* Reference extractor: src/src/markdown.rs                                *)

\* u8::to_ascii_lowercase, for the letters that occur in the model's ids
LowerChar(c) ==
    CASE c = "T" -> "t" [] c = "A" -> "a" [] c = "S" -> "s" [] c = "K" -> "k"
      [] OTHER -> c

\* str::eq_ignore_ascii_case
EqIgnoreAsciiCase(s, t) ==
    /\ Len(s) = Len(t)
    /\ \A i \in 1..Len(s) : LowerChar(s[i]) = LowerChar(t[i])

\* the first position at or after i that holds whitespace (Len(s) + 1 if none)
RECURSIVE FirstWs(_, _)
FirstWs(s, i) ==
    IF i > Len(s) THEN Len(s) + 1 ELSE IF IsWs(s[i]) THEN i ELSE FirstWs(s, i + 1)

\* t.split_whitespace().next().unwrap_or("") on a trimmed string
TokenOf(t) == SubSeq(t, 1, FirstWs(t, 1) - 1)

\* rest.trim().split_whitespace().next(), <<>> when there is no token
FirstToken(rest) == TokenOf(Trim(rest))

\* the parse both scanners apply to a trimmed line whose first ']' is at
\* end_bracket: Some(<<id, dest>>) for "[id]:dest" (dest is <<>> when no
\* token follows the colon), None for any other line
ParseRefParts(trimmed, end_bracket) ==
    IF ~(StartsWith(trimmed, <<"[">>) /\ Contains(trimmed, <<"]", ":">>)) THEN None
    ELSE IF ~StartsWith(SubSeq(trimmed, end_bracket + 1, Len(trimmed)), <<":">>) THEN None
    ELSE Some(<<SubSeq(trimmed, 2, end_bracket - 1),
                FirstToken(SubSeq(trimmed, end_bracket + 2, Len(trimmed)))>>)

ParseRefTrimmed(trimmed) == ParseRefParts(trimmed, Find(trimmed, <<"]">>))

ParseRefLine(line) == ParseRefTrimmed(Trim(line))

\* extract_references, the push of one parsed line: a line without a
\* destination and a line whose id was pushed before are skipped
PushRef(references, parsed) ==
    IF parsed = None THEN references
    ELSE IF Unwrap(parsed)[2] = <<>> THEN references
    ELSE IF \E k \in 1..Len(references) : references[k][1] = Unwrap(parsed)[1] THEN references
    ELSE Append(references, Unwrap(parsed))

\* extract_references: the manual line scan (the pulldown-cmark loop before
\* it never pushes anything, because current_id is never assigned)
RECURSIVE ExtractRefsLoop(_, _, _)
ExtractRefsLoop(lines, k, references) ==
    IF k > Len(lines) THEN references
    ELSE ExtractRefsLoop(lines, k + 1, PushRef(references, ParseRefLine(lines[k])))

extract_references(content) == ExtractRefsLoop(Lines(content), 1, <<>>)

\* get_reference_dest: the first line whose id matches, ignoring ASCII case,
\* and that has a ':' right after the ']' decides; an empty destination
\* there returns None at once (the `?` on next())
RECURSIVE RefDestLoop(_, _, _)
RECURSIVE RefDestStep(_, _, _, _)
RefDestStep(lines, k, ref_id, parsed) ==
    IF parsed = None THEN RefDestLoop(lines, k + 1, ref_id)
    ELSE IF ~EqIgnoreAsciiCase(Unwrap(parsed)[1], ref_id) THEN RefDestLoop(lines, k + 1, ref_id)
    ELSE IF Unwrap(parsed)[2] = <<>> THEN None
    ELSE Some(Unwrap(parsed)[2])

RefDestLoop(lines, k, ref_id) ==
    IF k > Len(lines) THEN None
    ELSE RefDestStep(lines, k, ref_id, ParseRefLine(lines[k]))

get_reference_dest(content, ref_id) == RefDestLoop(Lines(content), 1, ref_id)

DASHES == <<"-", "-", "-">>                              \* "---"
PREFIX_KEY == <<"P", "R", "E", "F", "I", "X", ":">>      \* "PREFIX:"

\* the 1-based index of the first "---" line at or after i, 0 if there is none
RECURSIVE FirstDashes(_, _)
FirstDashes(lines, i) ==
    IF i > Len(lines) THEN 0
    ELSE IF Trim(lines[i]) = DASHES THEN i
    ELSE FirstDashes(lines, i + 1)

\* extract_frontmatter_prefix, one frontmatter line
PrefixOf(line, found_prefix) ==
    IF StartsWith(line, PREFIX_KEY)
    THEN Some(Trim(SubSeq(line, Len(PREFIX_KEY) + 1, Len(line))))
    ELSE found_prefix

\* extract_frontmatter_prefix, the inner loop: up to the closing "---"
RECURSIVE FrontmatterScan(_, _, _)
FrontmatterScan(lines, i, found_prefix) ==
    IF i > Len(lines) THEN found_prefix
    ELSE IF Trim(lines[i]) = DASHES THEN found_prefix
    ELSE FrontmatterScan(lines, i + 1, PrefixOf(Trim(lines[i]), found_prefix))

FrontmatterOpen(lines, open) ==
    IF open = 0 THEN None ELSE FrontmatterScan(lines, open + 1, None)

FrontmatterOf(lines) == FrontmatterOpen(lines, FirstDashes(lines, 1))

\* extract_frontmatter_prefix: the last PREFIX: line between the first "---"
\* line and the next one
extract_frontmatter_prefix(content) == FrontmatterOf(Lines(content))

----------------------------------------------------------------------------
(* Task file reader: src/src/cmd/task/reader.rs                            *)

TASK_PREFIX == <<"T", "A", "S", "K", "-">>    \* TaskFileReader::new: prefix "TASK-"
ENTRY_START == <<"-", " ", "[">>               \* "- ["
COMMENT_START == <<" ", " ", "-", " ">>        \* "  - "

\* format!("[{}]", task_id)
IdTag(task_id) == <<"[">> \o task_id \o <<"]">>

\* the test of a line for being task_id's checklist entry
IsEntryLineOf(line, task_id) ==
    Contains(line, IdTag(task_id)) /\ StartsWith(Trim(line), ENTRY_START)

\* find_task_entry_line on the lines from the k-th on: the first entry line
\* of task_id, with its 0-based index
RECURSIVE FindEntryIn(_, _, _)
FindEntryIn(lines, k, task_id) ==
    IF k > Len(lines) THEN None
    ELSE IF IsEntryLineOf(lines[k], task_id)
    THEN Some([line_num |-> k - 1, line |-> lines[k]])
    ELSE FindEntryIn(lines, k + 1, task_id)

find_task_entry_line(content, task_id) == FindEntryIn(Lines(content), 1, task_id)

\* get_task, the title of an entry: `rest[..end_title]`
TitleAt(rest, end_title, title) ==
    IF end_title # 0 THEN Some(SubSeq(rest, 1, end_title - 1)) ELSE title

\* get_task without the owner marker: the '@' of an entry line is not read
OwnerAtKept(trimmed, at_pos, owner) == owner

\* get_task, the owner of an entry: `trimmed[at_pos..].trim()`
OwnerAt(trimmed, at_pos, owner) ==
    IF at_pos # 0 THEN Some(Trim(SubSeq(trimmed, at_pos, Len(trimmed)))) ELSE owner

\* get_task, the entry line of task_id; start is the position of "] ["
GetTaskEntry(st, trimmed, task_id, start) ==
    [is_done |-> IF Len(trimmed) > 3 THEN trimmed[4] = "x" ELSE st.is_done,
     title |-> IF start # 0
               THEN TitleAt(SubSeq(trimmed, start + 3, Len(trimmed)),
                            Find(SubSeq(trimmed, start + 3, Len(trimmed)),
                                 <<"]", "[">> \o task_id),
                            st.title)
               ELSE st.title,
     owner |-> IF start # 0 THEN OwnerAt(trimmed, Find(trimmed, <<"@">>), st.owner)
               ELSE st.owner,
     comments |-> st.comments,
     in_task |-> TRUE]

\* one iteration of the scan loop of get_task
GetTaskTrimmed(st, line, trimmed, task_id) ==
    IF StartsWith(trimmed, ENTRY_START)
    THEN IF Contains(line, IdTag(task_id))
         THEN GetTaskEntry(st, trimmed, task_id, Find(trimmed, <<"]", " ", "[">>))
         ELSE [st EXCEPT !.in_task = FALSE]
    ELSE IF st.in_task /\ StartsWith(line, COMMENT_START)
    THEN [st EXCEPT !.comments = Append(@, SubSeq(trimmed, 3, Len(trimmed)))]
    ELSE IF st.in_task /\ trimmed # <<>> /\ ~StartsWith(line, <<" ", " ">>)
    THEN [st EXCEPT !.in_task = FALSE]
    ELSE st

GetTaskLine(st, line, task_id) == GetTaskTrimmed(st, line, Trim(line), task_id)

RECURSIVE GetTaskScan(_, _, _, _)
GetTaskScan(st, lines, k, task_id) ==
    IF k > Len(lines) THEN st
    ELSE GetTaskScan(GetTaskLine(st, lines[k], task_id), lines, k + 1, task_id)

\* struct Task, from what the scan left and whether an entry line exists
TaskOf(task_id, node_ref, st, in_body) ==
    [id |-> task_id,
     title |-> st.title,
     node_ref |-> node_ref,
     status |-> IF in_body THEN (IF st.is_done THEN "Done" ELSE "Doing") ELSE "Backlog",
     owner |-> st.owner,
     comments |-> st.comments]

GetTaskWith(lines, task_id, node_ref) ==
    IF node_ref = None THEN None
    ELSE Some(TaskOf(task_id, Unwrap(node_ref),
                     GetTaskScan([is_done |-> FALSE, title |-> None, owner |-> None,
                                  comments |-> <<>>, in_task |-> FALSE],
                                 lines, 1, task_id),
                     FindEntryIn(lines, 1, task_id) # None))

\* get_task on the lines of the content; get_node_ref scans the same lines
GetTaskIn(lines, task_id) == GetTaskWith(lines, task_id, RefDestLoop(lines, 1, task_id))

\* get_task: None without a reference definition, else the derived Task
get_task(content, task_id) == GetTaskIn(Lines(content), task_id)

\* the header line find_body_insert_point and take look for or create
HeaderLine(hdr) ==
    IF StartsWith(hdr, <<"#", "#">>) THEN hdr ELSE <<"#", "#", " ">> \o hdr

\* the 1-based index of the next "---" line after the one at d (0: none)
DashesAfter(lines, d) == IF d = 0 THEN 0 ELSE FirstDashes(lines, d + 1)

\* the first 1-based position at or after p whose line is not blank
\* (Len(lines) + 1 if there is none)
RECURSIVE SkipBlank(_, _)
SkipBlank(lines, p) ==
    IF p > Len(lines) THEN Len(lines) + 1
    ELSE IF Trim(lines[p]) = <<>> THEN SkipBlank(lines, p + 1)
    ELSE p

\* a find_body_insert_point that falls back to the start of the body when
\* the header is absent while other headers exist
HeaderFoundLenient(lines, header_line, body_start, search_end, found) ==
    IF found # {} THEN Ok([insert_at |-> MinOf(found) + 1, needs_header |-> FALSE])
    ELSE Ok([insert_at |-> body_start,
             needs_header |-> ~\E i \in body_start..(search_end - 1) :
                                  StartsWith(Trim(lines[i + 1]), <<"#", "#">>)])

\* find_body_insert_point with a header, given the 0-based indices of the
\* lines that equal it
HeaderFound(lines, header_line, body_start, search_end, found) ==
    IF found # {} THEN Ok([insert_at |-> MinOf(found) + 1, needs_header |-> FALSE])
    ELSE IF \E i \in body_start..(search_end - 1) :
                StartsWith(Trim(lines[i + 1]), <<"#", "#">>)
    THEN Err(header_line)
    ELSE Ok([insert_at |-> body_start, needs_header |-> TRUE])

HeaderInsert(lines, header_line, body_start, search_end) ==
    HeaderFound(lines, header_line, body_start, search_end,
                {i \in body_start..(search_end - 1) : Trim(lines[i + 1]) = header_line})

\* find_body_insert_point from body_start and search_end (0-based)
BodyInsertAt(lines, header, body_start, search_end) ==
    IF header = None THEN Ok([insert_at |-> body_start, needs_header |-> FALSE])
    ELSE HeaderInsert(lines, HeaderLine(Unwrap(header)), body_start, search_end)

\* find_body_insert_point from the 1-based indices of the second and third
\* "---" line (0: there is none)
BodyInsertFrom(lines, header, frontmatter_end, body_separator) ==
    BodyInsertAt(lines, header,
                 IF frontmatter_end = 0 THEN 3 ELSE SkipBlank(lines, frontmatter_end + 1) - 1,
                 IF body_separator = 0 THEN Len(lines) ELSE body_separator - 1)

BodyInsertSecond(lines, header, frontmatter_end) ==
    BodyInsertFrom(lines, header, frontmatter_end, DashesAfter(lines, frontmatter_end))

BodyInsertIn(lines, header) ==
    BodyInsertSecond(lines, header, DashesAfter(lines, FirstDashes(lines, 1)))

\* find_body_insert_point: Ok([insert_at, needs_header]) or Err(header line);
\* line indices are 0-based as in the code
find_body_insert_point(content, header) == BodyInsertIn(Lines(content), header)

\* the 1-based index of the last reference line at or before i (0: none)
RECURSIVE LastRefLine(_, _)
LastRefLine(lines, i) ==
    IF i = 0 THEN 0
    ELSE IF StartsWith(Trim(lines[i]), <<"[">>) /\ Contains(lines[i], <<"]", ":">>) THEN i
    ELSE LastRefLine(lines, i - 1)

RefAppendAfter(lines, third) ==
    IF third = 0 THEN Len(lines) ELSE SkipBlank(lines, third + 1) - 1

RefAppendAt(lines, last_ref) ==
    IF last_ref # 0 THEN last_ref
    ELSE RefAppendAfter(lines,
             DashesAfter(lines, DashesAfter(lines, FirstDashes(lines, 1))))

RefAppendIn(lines) == RefAppendAt(lines, LastRefLine(lines, Len(lines)))

\* find_reference_append_point: the 0-based index after the last reference
\* line, else after the blank lines that follow the third "---", else the end
find_reference_append_point(content) == RefAppendIn(Lines(content))

IsDigit(c) == c \in {"0", "1", "2", "3", "4", "5", "6", "7", "8", "9"}
DigitVal(c) ==
    CASE c = "0" -> 0 [] c = "1" -> 1 [] c = "2" -> 2 [] c = "3" -> 3 [] c = "4" -> 4
      [] c = "5" -> 5 [] c = "6" -> 6 [] c = "7" -> 7 [] c = "8" -> 8 [] c = "9" -> 9
DigitChar(d) == <<"0", "1", "2", "3", "4", "5", "6", "7", "8", "9">>[d + 1]

\* A u32 is kept as its decimal numeral: a digit string without leading
\* zeros.  The numeral of a digit string:
RECURSIVE StripZeros(_)
StripZeros(s) == IF Len(s) > 1 /\ s[1] = "0" THEN StripZeros(Tail(s)) ELSE s

\* a < b for numerals
NumLess(a, b) ==
    \/ Len(a) < Len(b)
    \/ /\ Len(a) = Len(b)
       /\ \E i \in 1..Len(a) :
             /\ \A j \in 1..(i - 1) : a[j] = b[j]
             /\ DigitVal(a[i]) < DigitVal(b[i])

U32_MAX == <<"4", "2", "9", "4", "9", "6", "7", "2", "9", "5">>   \* u32::MAX

\* str::parse::<u32>() on digits that follow an optional '+'
ParseDigits(d) ==
    IF d = <<>> THEN None
    ELSE IF \E i \in 1..Len(d) : ~IsDigit(d[i]) THEN None
    ELSE IF NumLess(U32_MAX, StripZeros(d)) THEN None
    ELSE Some(StripZeros(d))

\* str::parse::<u32>() on the suffix of an id: an optional '+', then one or
\* more digits whose value is at most u32::MAX; Err (None) for anything else
ParseU32(s) ==
    IF s # <<>> /\ s[1] = "+" THEN ParseDigits(Tail(s)) ELSE ParseDigits(s)

\* the numeral of n + 1
RECURSIVE Succ(_)
Succ(n) ==
    IF n = <<>> THEN <<"1">>
    ELSE IF n[Len(n)] = "9" THEN Succ(SubSeq(n, 1, Len(n) - 1)) \o <<"0">>
    ELSE SubSeq(n, 1, Len(n) - 1) \o <<DigitChar(DigitVal(n[Len(n)]) + 1)>>

\* `max_num + 1` in u32: at u32::MAX a build with overflow checks panics
\* (None), a build without them wraps to 0
AddOne(max_num, overflow_checks) ==
    IF max_num # U32_MAX THEN Some(Succ(max_num))
    ELSE IF overflow_checks THEN None
    ELSE Some(<<"0">>)

\* format!("{:02}", n)
Format02(n) == IF Len(n) < 2 THEN <<"0">> \o n ELSE n

\* next_task_id, one reference: `task_id.strip_prefix(&self.prefix)` and
\* `num_str.parse::<u32>()`
NumOf(task_id, prefix) ==
    IF StartsWith(task_id, prefix)
    THEN ParseU32(SubSeq(task_id, Len(prefix) + 1, Len(task_id)))
    ELSE None

\* max_num.max(num)
MaxWith(max_num, num) ==
    IF num = None THEN max_num
    ELSE IF NumLess(max_num, Unwrap(num)) THEN Unwrap(num) ELSE max_num

RECURSIVE MaxSuffix(_, _, _, _)
MaxSuffix(refs, k, prefix, max_num) ==
    IF k > Len(refs) THEN max_num
    ELSE MaxSuffix(refs, k + 1, prefix, MaxWith(max_num, NumOf(refs[k][1], prefix)))

\* format!("{}{:02}", self.prefix, max_num + 1), None when the sum panics
NextIdWith(prefix, sum) ==
    IF sum = None THEN None ELSE Some(prefix \o Format02(Unwrap(sum)))

\* next_task_id: prefix + (1 + the largest u32 suffix of the ids that start
\* with prefix), zero-padded to two digits; None when `max_num + 1` panics
NextIdOf(refs, prefix, overflow_checks) ==
    NextIdWith(prefix, AddOne(MaxSuffix(refs, 1, prefix, <<"0">>), overflow_checks))

next_task_id(content, prefix, overflow_checks) ==
    NextIdOf(extract_references(content), prefix, overflow_checks)

\* find_by_node_ref: the id of the first reference whose destination is node_ref
RECURSIVE FirstWithDest(_, _, _)
FirstWithDest(refs, k, node_ref) ==
    IF k > Len(refs) THEN None
    ELSE IF refs[k][2] = node_ref THEN Some(refs[k][1])
    ELSE FirstWithDest(refs, k + 1, node_ref)

find_by_node_ref(content, node_ref) == FirstWithDest(extract_references(content), 1, node_ref)

----------------------------------------------------------------------------
(* Task commands: src/src/cmd/task/{mod,add,take,comment,release,log}.rs   *)
(*                                                                         *)
(* A command is an operator from the file on disk (None while TASK.md does *)
(* not exist) and the command's arguments to its outcome:                  *)
(*   ok     whether the command returned Ok(())                            *)
(*   err    the error it returned (kind "none" if ok)                      *)
(*   saved  the sequence of contents it passed to save_task_content        *)
(*   reads  how many times it read the file from disk                      *)
(*   out    the task ids it printed on a line of their own                 *)

\* the content load_task_content and add::run use while TASK.md does not exist
DefaultContent ==
    DASHES \o <<NL>>
    \o PREFIX_KEY \o <<SP>> \o TASK_PREFIX \o <<NL>>
    \o DASHES \o <<NL>>
    \o <<NL>>
    \o DASHES \o <<NL>>
    \o <<NL>>

load_task_content(file) == IF file = None THEN DefaultContent ELSE Unwrap(file)

\* get_agent_name: "@" + EMX_AGENT_NAME, None when unset or empty
get_agent_name(env_agent) ==
    IF env_agent = None THEN None
    ELSE IF Unwrap(env_agent) = <<>> THEN None
    ELSE Some(<<"@">> \o Unwrap(env_agent))

NoError == [kind |-> "none"]
Returned(saved, out) ==
    [ok |-> TRUE, err |-> NoError, saved |-> saved, reads |-> 0, out |-> out]
Failed(err) ==
    [ok |-> FALSE, err |-> err, saved |-> <<>>, reads |-> 0, out |-> <<>>]

\* the outcome res of a command that read the file `reads` more times
WithReads(reads, res) == [res EXCEPT !.reads = @ + reads]

\* the one read of load_task_content: fs::read_to_string if the file exists
ReadOnce(file, res) == WithReads(IF file = None THEN 0 ELSE 1, res)

TaskNotFound(task_id) == [kind |-> "TaskNotFound", id |-> task_id]
AlreadyTaken(owner) == [kind |-> "AlreadyTaken", owner |-> owner]
HeaderNotFound(header_line) == [kind |-> "HeaderNotFound", header |-> header_line]
NotInBody(task_id) == [kind |-> "NotInBody", id |-> task_id]
EditFailed(e) == [kind |-> "Validation", error |-> e]
ForceMultiple == [kind |-> "ForceMultiple"]
TaskFileNotFound == [kind |-> "TaskFileNotFound"]
NoteNotFound(node_ref) == [kind |-> "NoteNotFound", node_ref |-> node_ref]
Panicked == [kind |-> "Panic"]   \* attempt to add with overflow

\* log::run on an existing file: TaskFileReader::load reads it, get_task
\* finds the task or not; nothing is written
LogFound(found, task_id) ==
    IF found = None THEN Failed(TaskNotFound(task_id)) ELSE Returned(<<>>, <<>>)

\* log::run
log_run(file, task_id) ==
    IF file = None THEN Failed(TaskFileNotFound)
    ELSE WithReads(1, LogFound(get_task(Unwrap(file), task_id), task_id))

\* a command that did `before` and ends with log::run, whose outcome is l
MergeLog(before, l) ==
    [ok |-> l.ok, err |-> l.err, saved |-> before.saved,
     reads |-> before.reads + l.reads, out |-> <<>>]

\* the outcome of a command that ends with `return log::run(..)` or
\* `log::run(..)` after `before` was done and `file_now` is on disk
ThenLog(before, file_now, task_id) == MergeLog(before, log_run(file_now, task_id))

\* format!("- {} [{}][{}]{}", checkbox, task_title, task_id, owner_str)
EntryLine(checkbox, title, task_id, owner_str) ==
    <<"-", " ">> \o checkbox \o <<" ", "[">> \o title \o <<"]", "[">> \o task_id \o <<"]">> \o owner_str

UNCHECKED == <<"[", " ", "]">>
CHECKED == <<"[", "x", "]">>

\* take::run, the rewrite of an existing entry line whose first '@' is at
\* at_pos (lines 65-83)
TakeUpdatedAt(existing_line, agent_marker, at_pos) ==
    IF at_pos # 0
    THEN IF IsSome(agent_marker)
         THEN TrimEnd(SubSeq(existing_line, 1, at_pos - 1)) \o <<SP>> \o Unwrap(agent_marker)
         ELSE TrimEnd(SubSeq(existing_line, 1, at_pos - 1))
    ELSE IF IsSome(agent_marker)
         THEN TrimEnd(existing_line) \o <<SP>> \o Unwrap(agent_marker)
         ELSE existing_line

TakeUpdatedLine(existing_line, agent_marker) ==
    TakeUpdatedAt(existing_line, agent_marker, Find(existing_line, <<"@">>))

\* the edits that insert a new entry (take lines 96-113, release lines 128-139)
InsertEntryEdits(insert_point, needs_header, header_text, task_entry) ==
    IF needs_header
    THEN <<InsertAtLine(insert_point, header_text \o task_entry),
           InsertAtLine(insert_point + 3, <<>>)>>
    ELSE <<InsertAtLine(insert_point, task_entry),
           InsertAtLine(insert_point + 1, <<>>)>>

\* save_task_content of the result r of apply_edits, or the edit error
SaveEdited(r, out) ==
    IF r.ok THEN Returned(<<r.val>>, out) ELSE Failed(EditFailed(r.err))

\* apply_edits followed by save_task_content
EditAndSave(content, edits, out) == SaveEdited(apply_edits(content, edits), out)

\* take::run, lines 39-48: the entry line of a new entry
TakeEntry(task, title, task_id, agent_marker) ==
    EntryLine(IF task.status = "Done" THEN CHECKED ELSE UNCHECKED,
              IF IsSome(title) THEN Unwrap(title)
              ELSE IF IsSome(task.title) THEN Unwrap(task.title)
              ELSE task.node_ref,
              task_id,
              IF IsSome(agent_marker) THEN <<SP>> \o Unwrap(agent_marker) ELSE <<>>)

\* take::run, lines 99-103
HeaderText(header) ==
    IF IsSome(header) THEN HeaderLine(Unwrap(header)) \o <<NL, NL>> ELSE <<>>

\* take::run, lines 85-90
TakeUpdate(content, task_id, existing_line, updated_line) ==
    IF updated_line # existing_line
    THEN EditAndSave(content, <<Replace(existing_line, updated_line)>>, <<task_id>>)
    ELSE Returned(<<>>, <<task_id>>)

\* take::run, lines 93-117
TakeInsert(content, task_id, header, task_entry, point) ==
    IF ~point.ok THEN Failed(HeaderNotFound(point.err))
    ELSE EditAndSave(content,
             InsertEntryEdits(point.val.insert_at, point.val.needs_header,
                              HeaderText(header), task_entry),
             <<task_id>>)

\* take::run, lines 62-121
TakeWrite(content, lines, agent_marker, task_id, header, task_entry, existing) ==
    IF IsSome(existing)
    THEN TakeUpdate(content, task_id, Unwrap(existing).line,
                    TakeUpdatedLine(Unwrap(existing).line, agent_marker))
    ELSE TakeInsert(content, task_id, header, task_entry, BodyInsertIn(lines, header))

\* take::run without the ownership check of lines 28-36
TakeTaskUnchecked(content, lines, agent_marker, task_id, title, header, dry_run, found) ==
    IF found = None THEN Failed(TaskNotFound(task_id))
    ELSE IF dry_run THEN Returned(<<>>, <<>>)
    ELSE TakeWrite(content, lines, agent_marker, task_id, header,
                   TakeEntry(Unwrap(found), title, task_id, agent_marker),
                   FindEntryIn(lines, 1, task_id))

\* take::run, lines 20-121, with the outcome of get_task
TakeTask(content, lines, agent_marker, task_id, title, header, dry_run, found) ==
    IF found = None THEN Failed(TaskNotFound(task_id))
    ELSE IF IsSome(agent_marker) /\ IsSome(Unwrap(found).owner)
    THEN Failed(AlreadyTaken(Unwrap(Unwrap(found).owner)))
    ELSE IF dry_run THEN Returned(<<>>, <<>>)
    ELSE TakeWrite(content, lines, agent_marker, task_id, header,
                   TakeEntry(Unwrap(found), title, task_id, agent_marker),
                   FindEntryIn(lines, 1, task_id))

\* take::run on the content read; the reader's methods all scan content.lines()
TakeRead(content, lines, agent_marker, task_id, title, header, dry_run) ==
    TakeTask(content, lines, agent_marker, task_id, title, header, dry_run,
             GetTaskIn(lines, task_id))

TakeLoaded(content, agent_marker, task_id, title, header, dry_run) ==
    TakeRead(content, Lines(content), agent_marker, task_id, title, header, dry_run)

\* take::run
take_run(file, env_agent, task_id, title, header, dry_run) ==
    ReadOnce(file, TakeLoaded(load_task_content(file), get_agent_name(env_agent),
                              task_id, title, header, dry_run))

\* the scan for the insert point of a comment (comment lines 53-65, release
\* lines 106-113), at the 1-based line i with insert_at so far.  The first
\* test compares `line.trim()`, which has no leading blanks, with "  - ".
RECURSIVE CommentScan(_, _, _)
RECURSIVE CommentScanLine(_, _, _, _)
CommentScanLine(lines, i, insert_at, trimmed) ==
    IF StartsWith(trimmed, COMMENT_START) THEN CommentScan(lines, i + 1, i)
    ELSE IF StartsWith(trimmed, ENTRY_START) THEN insert_at
    ELSE IF trimmed # <<>> /\ ~StartsWith(trimmed, <<" ", " ">>) THEN insert_at
    ELSE CommentScan(lines, i + 1, insert_at)

CommentScan(lines, i, insert_at) ==
    IF i > Len(lines) THEN insert_at
    ELSE CommentScanLine(lines, i, insert_at, Trim(lines[i]))

\* the 0-based line at which a comment of the entry at task_line_num goes
CommentInsertAt(lines, task_line_num) ==
    CommentScan(lines, task_line_num + 2, task_line_num + 1)

\* format!("  - {} {}", timestamp, message), with " [hash]" for --git
CommentLine(timestamp, message, git) ==
    COMMENT_START \o timestamp \o <<SP>> \o message
        \o (IF IsSome(git) THEN <<" ", "[">> \o Unwrap(git) \o <<"]">> ELSE <<>>)

\* comment::run, line 74 after the save of lines 67-70
CommentSaved(edited, task_id) ==
    IF ~edited.ok THEN edited
    ELSE ThenLog(edited, Some(edited.saved[1]), task_id)

\* comment::run, lines 50-74
CommentWrite(file, content, lines, task_id, comment, entry) ==
    IF entry = None THEN ThenLog(Returned(<<>>, <<>>), file, task_id)
    ELSE CommentSaved(
             EditAndSave(content,
                 <<InsertAtLine(CommentInsertAt(lines, Unwrap(entry).line_num), comment)>>,
                 <<>>),
             task_id)

\* a comment::run without the check that the task is in the body
CommentTaskAnywhere(file, content, lines, task_id, comment, dry_run, found) ==
    IF found = None THEN Failed(TaskNotFound(task_id))
    ELSE IF dry_run THEN Returned(<<>>, <<>>)
    ELSE CommentWrite(file, content, lines, task_id, comment,
                      FindEntryIn(lines, 1, task_id))

\* comment::run, lines 21-74, with the outcome of get_task
CommentTask(file, content, lines, task_id, comment, dry_run, found) ==
    IF found = None THEN Failed(TaskNotFound(task_id))
    ELSE IF Unwrap(found).status = "Backlog" THEN Failed(NotInBody(task_id))
    ELSE IF dry_run THEN Returned(<<>>, <<>>)
    ELSE CommentWrite(file, content, lines, task_id, comment,
                      FindEntryIn(lines, 1, task_id))

CommentRead(file, content, lines, task_id, comment, dry_run) ==
    CommentTask(file, content, lines, task_id, comment, dry_run, GetTaskIn(lines, task_id))

CommentLoaded(file, content, task_id, comment, dry_run) ==
    CommentRead(file, content, Lines(content), task_id, comment, dry_run)

\* comment::run
comment_run(file, task_id, message, git, timestamp, dry_run) ==
    ReadOnce(file, CommentLoaded(file, load_task_content(file), task_id,
                                 CommentLine(timestamp, message, git), dry_run))

\* release::run, lines 71-75: the entry line without what follows its first '@'
ReleaseUpdated(task_line, at_pos) ==
    IF at_pos # 0 THEN TrimEnd(SubSeq(task_line, 1, at_pos - 1)) ELSE task_line

\* the checkbox flipped whatever done is
ReleaseCheckedFlipped(updated, done) ==
    IF StartsWith(updated, <<"-", " ">> \o UNCHECKED)
    THEN <<"-", " ">> \o CHECKED \o SubSeq(updated, 6, Len(updated))
    ELSE IF StartsWith(updated, <<"-", " ">> \o CHECKED)
    THEN <<"-", " ">> \o UNCHECKED \o SubSeq(updated, 6, Len(updated))
    ELSE updated

\* release::run, lines 80-95: the checkbox
ReleaseChecked(updated, done) ==
    IF done
    THEN IF StartsWith(updated, <<"-", " ">> \o UNCHECKED)
         THEN <<"-", " ">> \o CHECKED \o SubSeq(updated, 6, Len(updated))
         ELSE updated
    ELSE IF StartsWith(updated, <<"-", " ">> \o CHECKED)
         THEN <<"-", " ">> \o UNCHECKED \o SubSeq(updated, 6, Len(updated))
         ELSE updated

\* release::run, the rewrite of an existing entry line (lines 71-95)
ReleaseFinalLine(task_line, done) ==
    ReleaseChecked(ReleaseUpdated(task_line, Find(task_line, <<"@">>)), done)

\* "  - {timestamp} Completed by @anonymous"
CompletionComment(timestamp) ==
    COMMENT_START \o timestamp
        \o <<" ", "C", "o", "m", "p", "l", "e", "t", "e", "d", " ", "b", "y", " ",
             "@", "a", "n", "o", "n", "y", "m", "o", "u", "s">>

\* release::run, lines 98-115: the edits of an entry that exists
ReleaseUpdateEdits(clines, line_num, task_line, agent_marker, done, timestamp) ==
    <<Replace(task_line, ReleaseFinalLine(task_line, done))>>
    \o (IF done /\ agent_marker = None
        THEN <<InsertAtLine(CommentInsertAt(clines, line_num), CompletionComment(timestamp))>>
        ELSE <<>>)

\* release::run, lines 122-146: the edits that insert a checked entry at point
ReleaseInsertAt(task, task_id, agent_marker, timestamp, point) ==
    InsertEntryEdits(point.insert_at, point.needs_header,
                     <<"#", "#", " ", "D", "o", "n", "e", NL, NL>>,
                     EntryLine(CHECKED,
                               IF IsSome(task.title) THEN Unwrap(task.title) ELSE task.node_ref,
                               task_id, <<>>))
    \o (IF agent_marker = None
        THEN <<InsertAtLine(point.insert_at + (IF point.needs_header THEN 3 ELSE 1) + 1,
                            CompletionComment(timestamp))>>
        ELSE <<>>)

\* `find_body_insert_point(None).unwrap_or((0, false))`
ReleaseInsertEdits(task, task_id, agent_marker, timestamp, found_point) ==
    ReleaseInsertAt(task, task_id, agent_marker, timestamp,
                    IF found_point.ok THEN found_point.val
                    ELSE [insert_at |-> 0, needs_header |-> FALSE])

\* current_content and released_count after apply_edits returned edited
Released(edited) ==
    IF edited.ok THEN [ok |-> TRUE, content |-> edited.val, released |-> 1]
    ELSE [ok |-> FALSE, err |-> EditFailed(edited.err)]

\* release::run, lines 67-151, with the outcome of find_task_entry_line on
\* current_content
ReleaseAt(current, clines, task, task_id, agent_marker, done, timestamp, entry) ==
    IF IsSome(entry)
    THEN Released(apply_edits(current,
             ReleaseUpdateEdits(clines, Unwrap(entry).line_num, Unwrap(entry).line,
                                agent_marker, done, timestamp)))
    ELSE IF done
    THEN Released(apply_edits(current,
             ReleaseInsertEdits(task, task_id, agent_marker, timestamp,
                                BodyInsertIn(clines, None))))
    ELSE [ok |-> TRUE, content |-> current, released |-> 0]

ReleaseEntry(current, clines, task, task_id, agent_marker, done, timestamp) ==
    ReleaseAt(current, clines, task, task_id, agent_marker, done, timestamp,
              FindEntryIn(clines, 1, task_id))

\* release::run without the skip rule of lines 58-62
ReleaseTaskNoSkip(current, task_id, agent_marker, done, force, timestamp, found) ==
    IF found = None THEN [ok |-> FALSE, err |-> TaskNotFound(task_id)]
    ELSE ReleaseEntry(current, Lines(current), Unwrap(found), task_id, agent_marker,
                      done, timestamp)

\* a release::run that passes over an unknown id and writes the rest
ReleaseTaskPartial(current, task_id, agent_marker, done, force, timestamp, found) ==
    IF found = None THEN [ok |-> TRUE, content |-> current, released |-> 0]
    ELSE IF ~force /\ ~done /\ Unwrap(found).owner = None
    THEN [ok |-> TRUE, content |-> current, released |-> 0]
    ELSE ReleaseEntry(current, Lines(current), Unwrap(found), task_id, agent_marker,
                      done, timestamp)

\* release::run, lines 54-151, with the outcome of get_task on the content read
ReleaseTask(current, task_id, agent_marker, done, force, timestamp, found) ==
    IF found = None THEN [ok |-> FALSE, err |-> TaskNotFound(task_id)]
    ELSE IF ~force /\ ~done /\ Unwrap(found).owner = None
    THEN [ok |-> TRUE, content |-> current, released |-> 0]
    ELSE ReleaseEntry(current, Lines(current), Unwrap(found), task_id, agent_marker,
                      done, timestamp)

\* release::run, one iteration of the loop over task_ids (lines 53-152):
\* `reader` holds the lines of the content read, `current` is current_content
ReleaseOne(lines, current, task_id, agent_marker, done, force, timestamp) ==
    ReleaseTask(current, task_id, agent_marker, done, force, timestamp,
                GetTaskIn(lines, task_id))

RECURSIVE ReleaseLoop(_, _, _, _, _, _, _, _, _)
RECURSIVE ReleaseNext(_, _, _, _, _, _, _, _, _)
ReleaseNext(lines, released_count, task_ids, k, agent_marker, done, force, timestamp, r) ==
    IF r.ok
    THEN ReleaseLoop(lines, r.content, released_count + r.released, task_ids, k + 1,
                     agent_marker, done, force, timestamp)
    ELSE r

ReleaseLoop(lines, current, released_count, task_ids, k, agent_marker, done, force, timestamp) ==
    IF k > Len(task_ids)
    THEN [ok |-> TRUE, content |-> current, released |-> released_count]
    ELSE ReleaseNext(lines, released_count, task_ids, k, agent_marker, done, force,
                     timestamp,
                     ReleaseOne(lines, current, task_ids[k], agent_marker, done, force,
                                timestamp))

\* release::run, lines 34-48: the dry run fails at the first unknown id
RECURSIVE ReleaseDry(_, _, _)
ReleaseDry(lines, task_ids, k) ==
    IF k > Len(task_ids) THEN Returned(<<>>, <<>>)
    ELSE IF GetTaskIn(lines, task_ids[k]) = None THEN Failed(TaskNotFound(task_ids[k]))
    ELSE ReleaseDry(lines, task_ids, k + 1)

\* release::run, lines 158-166, after `saved` was written (<<>>: no write)
ReleaseSaved(file, task_ids, done, saved) ==
    IF done /\ Len(task_ids) = 1
    THEN ThenLog(Returned(saved, <<>>),
                 IF saved = <<>> THEN file ELSE Some(saved[1]), task_ids[1])
    ELSE Returned(saved, task_ids)

\* release::run, lines 154-166, with the outcome of the loop
ReleaseDone(file, task_ids, done, loop) ==
    IF ~loop.ok THEN Failed(loop.err)
    ELSE ReleaseSaved(file, task_ids, done,
                      IF loop.released > 0 THEN <<loop.content>> ELSE <<>>)

\* a release::run that ignores dry_run
ReleaseLoadedWet(file, content, agent_marker, task_ids, done, force, timestamp, dry_run) ==
    ReleaseDone(file, task_ids, done,
        ReleaseLoop(Lines(content), content, 0, task_ids, 1, agent_marker, done,
                    force, timestamp))

\* release::run, lines 31-166
ReleaseLoaded(file, content, agent_marker, task_ids, done, force, timestamp, dry_run) ==
    IF dry_run THEN ReleaseDry(Lines(content), task_ids, 1)
    ELSE ReleaseDone(file, task_ids, done,
             ReleaseLoop(Lines(content), content, 0, task_ids, 1, agent_marker, done,
                         force, timestamp))

\* release::run, with the agent marker
ReleaseAs(file, agent_marker, task_ids, done, force, timestamp, dry_run) ==
    IF agent_marker = None /\ ~done /\ Len(task_ids) = 1 THEN log_run(file, task_ids[1])
    ELSE IF force /\ Len(task_ids) > 1 THEN Failed(ForceMultiple)
    ELSE ReadOnce(file, ReleaseLoaded(file, load_task_content(file), agent_marker,
                                      task_ids, done, force, timestamp, dry_run))

\* release::run
release_run(file, env_agent, task_ids, done, force, timestamp, dry_run) ==
    ReleaseAs(file, get_agent_name(env_agent), task_ids, done, force, timestamp, dry_run)

\* add::run, lines 45-61
AddNew(content, lines, node_ref, task_id) ==
    EditAndSave(content,
                <<InsertAtLine(RefAppendIn(lines), IdTag(task_id) \o <<":", " ">> \o node_ref)>>,
                <<task_id>>)

\* add::run, lines 39-61, with the outcome of find_by_node_ref
AddFound(content, lines, node_ref, existing_id, next_id) ==
    IF IsSome(existing_id) THEN Returned(<<>>, <<Unwrap(existing_id)>>)
    ELSE IF next_id = None THEN Failed(Panicked)
    ELSE AddNew(content, lines, node_ref, Unwrap(next_id))

\* add::run with the reader's references (get_references) and prefix
AddRefs(content, lines, node_ref, refs, prefix, overflow_checks) ==
    AddFound(content, lines, node_ref, FirstWithDest(refs, 1, node_ref),
             NextIdOf(refs, prefix, overflow_checks))

\* TaskFileReader::load takes the prefix from the frontmatter,
\* TaskFileReader::new uses "TASK-"
ReaderPrefix(file, from_file) ==
    IF file # None /\ IsSome(from_file) THEN Unwrap(from_file) ELSE TASK_PREFIX

AddLines(file, content, lines, node_ref, overflow_checks) ==
    AddRefs(content, lines, node_ref, ExtractRefsLoop(lines, 1, <<>>),
            ReaderPrefix(file, FrontmatterOf(lines)), overflow_checks)

AddLoaded(file, content, node_ref, overflow_checks) ==
    AddLines(file, content, Lines(content), node_ref, overflow_checks)

\* add::run; `resolves` is the answer of note_resolver::resolve_note_or_error.
\* An existing file is read twice: by fs::read_to_string and by
\* TaskFileReader::load.  overflow_checks tells whether the build panics on
\* integer overflow.
add_run(file, node_ref, resolves, overflow_checks) ==
    IF ~resolves THEN Failed(NoteNotFound(node_ref))
    ELSE WithReads(IF file = None THEN 0 ELSE 2,
                   AddLoaded(file, load_task_content(file), node_ref, overflow_checks))

----------------------------------------------------------------------------
(* Note resolver: src/src/note_resolver.rs and slugify of src/src/util.rs  *)

\* enum ResolvedNote
Found(path) == [kind |-> "Found", path |-> path]
Ambiguous(paths) == [kind |-> "Ambiguous", paths |-> paths]
ResolvedNotFound == [kind |-> "NotFound"]

\* no call of resolve_note yet, and the capsa of the runs that make none
Unresolved == [kind |-> "NotCalled"]
NoCapsa == [today |-> <<>>, daily |-> <<>>, note |-> None, root |-> <<>>]

\* the entries of #daily/<date>, None when the directory does not exist
DailyDir(c, date) == IF date \in DOMAIN c.daily THEN c.daily[date] ELSE None

\* pub const DEFAULT_EXTENSIONS
DEFAULT_EXTENSIONS == <<<<".", "m", "d">>, <<".", "m", "x">>, <<".", "e", "m", "x">>>>

\* char::is_alphanumeric, restricted to the characters the model uses
IsAlphanumeric(c) ==
    c \notin {SP, NL, CR, "-", "/", "\\", ".", "#", "[", "]", "(", ")"}

\* the loop of slugify over title.to_lowercase()
RECURSIVE SlugLoop(_, _, _, _)
SlugLoop(title, i, result, prev_is_dash) ==
    IF i > Len(title) THEN result
    ELSE IF IsAlphanumeric(title[i])
    THEN SlugLoop(title, i + 1, Append(result, LowerChar(title[i])), FALSE)
    ELSE IF ~prev_is_dash /\ result # <<>>
    THEN SlugLoop(title, i + 1, Append(result, "-"), TRUE)
    ELSE SlugLoop(title, i + 1, result, prev_is_dash)

\* str::trim_matches('-') of the loop's result, which never starts with a
\* dash and never holds two in a row
TrimDashes(s) ==
    IF s # <<>> /\ s[Len(s)] = "-" THEN SubSeq(s, 1, Len(s) - 1) ELSE s

slugify(title) == TrimDashes(SlugLoop(title, 1, <<>>, FALSE))

\* chars().all(|c| c.is_ascii_digit())
AllDigits(s) == \A i \in 1..Len(s) : IsDigit(s[i])

\* chars().take_while(|c| c.is_ascii_digit()).collect()
RECURSIVE DigitRun(_, _)
DigitRun(s, i) ==
    IF i <= Len(s) /\ IsDigit(s[i]) THEN <<s[i]>> \o DigitRun(s, i + 1) ELSE <<>>

LeadingDigits(s) == DigitRun(s, 1)

\* str::parse::<u32>() of at most four ASCII digits
DigitValue(c) ==
    CASE c = "0" -> 0 [] c = "1" -> 1 [] c = "2" -> 2 [] c = "3" -> 3 [] c = "4" -> 4
      [] c = "5" -> 5 [] c = "6" -> 6 [] c = "7" -> 7 [] c = "8" -> 8 [] c = "9" -> 9

RECURSIVE SmallValue(_)
SmallValue(d) ==
    IF d = <<>> THEN 0 ELSE 10 * SmallValue(SubSeq(d, 1, Len(d) - 1)) + DigitValue(d[Len(d)])

\* validate_date, for a string of ASCII digits
validate_date(s) ==
    /\ Len(s) = 8
    /\ SmallValue(SubSeq(s, 1, 4)) >= 1900 /\ SmallValue(SubSeq(s, 1, 4)) <= 2100
    /\ SmallValue(SubSeq(s, 5, 6)) >= 1 /\ SmallValue(SubSeq(s, 5, 6)) <= 12
    /\ SmallValue(SubSeq(s, 7, 8)) >= 1 /\ SmallValue(SubSeq(s, 7, 8)) <= 31

\* validate_time, for a string of ASCII digits
validate_time(s) ==
    /\ Len(s) = 6
    /\ SmallValue(SubSeq(s, 1, 2)) <= 23
    /\ SmallValue(SubSeq(s, 3, 4)) <= 59
    /\ SmallValue(SubSeq(s, 5, 6)) <= 59

\* parse_full_timestamp: Some(<<date, time>>) or None
parse_full_timestamp(s) ==
    IF Len(s) >= 14 /\ AllDigits(s)
       /\ validate_date(SubSeq(s, 1, 8)) /\ validate_time(SubSeq(s, 9, 14))
    THEN Some(<<SubSeq(s, 1, 8), SubSeq(s, 9, 14)>>)
    ELSE None

\* extract_time_prefix
extract_time_prefix(s) ==
    IF LeadingDigits(s) # <<>> /\ Len(LeadingDigits(s)) <= 6
    THEN Some(LeadingDigits(s))
    ELSE None

\* name_str.ends_with(ext) for one of the extensions
HasExtension(name, extensions) ==
    \E k \in 1..Len(extensions) : EndsWith(name, extensions[k])

\* s[n..]
From(s, n) == SubSeq(s, n + 1, Len(s))

\* resolve_in_date_dir, match 1 for an all-digit prefix
TimePrefixMatch(rest) ==
    rest = <<>> \/ rest[1] = "-" \/ IsDigit(rest[1])

\* resolve_in_date_dir, match 1 for a prefix of digits followed by a title
HybridMatch(stem, prefix, digit_part) ==
    /\ StartsWith(stem, digit_part)
    /\ StartsWith(From(stem, Len(digit_part)), <<"-">>)
    /\ StartsWith(From(prefix, Len(digit_part)), <<"-">>)
    /\ StartsWith(From(stem, Len(digit_part) + 1), From(prefix, Len(digit_part) + 1))

\* resolve_in_date_dir, match 1: the stem starts with the prefix
DirectMatch(stem, prefix) ==
    /\ StartsWith(stem, prefix)
    /\ IF AllDigits(prefix) THEN TimePrefixMatch(From(stem, Len(prefix)))
       ELSE IF LeadingDigits(prefix) # <<>>
       THEN HybridMatch(stem, prefix, LeadingDigits(prefix))
       ELSE From(stem, Len(prefix)) = <<>> \/ From(stem, Len(prefix))[1] = "-"

\* resolve_in_date_dir, match 2: the title after the stem's leading digits
TitleMatch(stem, prefix, digits) ==
    /\ digits # <<>> /\ Len(stem) > Len(digits)
    /\ StartsWith(From(stem, Len(digits)), <<"-">>)
    /\ StartsWith(From(stem, Len(digits) + 1), prefix)

\* resolve_in_date_dir: the file name is pushed for one of the extensions
DateDirMatch(name, prefix, extensions) ==
    \E k \in 1..Len(extensions) :
        /\ EndsWith(name, extensions[k])
        /\ \E stem \in {SubSeq(name, 1, Len(name) - Len(extensions[k]))} :
              \/ DirectMatch(stem, prefix)
              \/ TitleMatch(stem, prefix, LeadingDigits(stem))

\* find_by_prefix with allow_timestamp_prefix: the part of a name after its
\* HHmmSS or HHmmSS- prefix starts with the prefix
AfterTimeMatch(name, prefix) ==
    /\ Len(name) >= 7
    /\ AllDigits(SubSeq(name, 1, 6))
    /\ StartsWith(From(name, IF name[7] = "-" THEN 7 ELSE 6), prefix)

\* find_by_prefix: the file name is pushed
PrefixMatch(name, prefix, extensions, allow_timestamp_prefix) ==
    /\ \/ allow_timestamp_prefix /\ AfterTimeMatch(name, prefix)
       \/ StartsWith(name, prefix)
    /\ HasExtension(name, extensions)

\* Path::join
JoinPath(dir, name) == dir \o <<"/">> \o name

DailyPath(date) == JoinPath(<<"#", "d", "a", "i", "l", "y">>, date)
NotePath == <<"n", "o", "t", "e">>

\* a scan that answers with its first candidate
ChoiceFirst(candidates) ==
    IF candidates = <<>> THEN ResolvedNotFound ELSE Found(candidates[1])

\* the match on candidates.len() that ends every scan
Choice(candidates) ==
    IF candidates = <<>> THEN ResolvedNotFound
    ELSE IF Len(candidates) = 1 THEN Found(candidates[1])
    ELSE Ambiguous(candidates)

\* the candidates of resolve_in_date_dir, in the order of fs::read_dir
RECURSIVE DateDirScan(_, _, _, _, _)
DateDirScan(names, i, dir, prefix, extensions) ==
    IF i > Len(names) THEN <<>>
    ELSE (IF DateDirMatch(names[i], prefix, extensions)
          THEN <<JoinPath(dir, names[i])>> ELSE <<>>)
         \o DateDirScan(names, i + 1, dir, prefix, extensions)

\* resolve_in_date_dir; the directory is None when it does not exist
resolve_in_date_dir(c, date, prefix, extensions) ==
    IF DailyDir(c, date) = None THEN ResolvedNotFound
    ELSE Choice(DateDirScan(Unwrap(DailyDir(c, date)), 1, DailyPath(date), prefix,
                            extensions))

\* the candidates of find_by_prefix, in the order of fs::read_dir
RECURSIVE PrefixScan(_, _, _, _, _, _)
PrefixScan(names, i, dir, prefix, extensions, allow_timestamp_prefix) ==
    IF i > Len(names) THEN <<>>
    ELSE (IF PrefixMatch(names[i], prefix, extensions, allow_timestamp_prefix)
          THEN <<JoinPath(dir, names[i])>> ELSE <<>>)
         \o PrefixScan(names, i + 1, dir, prefix, extensions, allow_timestamp_prefix)

find_by_prefix(names, dir, prefix, extensions, allow_timestamp_prefix) ==
    Choice(PrefixScan(names, 1, dir, prefix, extensions, allow_timestamp_prefix))

\* Path::exists for base_dir.join(link_target), base_dir being the capsa root
Exists(c, link_target) ==
    \/ link_target = <<>>
    \/ \E d \in DOMAIN c.daily :
          /\ c.daily[d] # None
          /\ \/ link_target = DailyPath(d)
             \/ \E k \in 1..Len(Unwrap(c.daily[d])) :
                   link_target = JoinPath(DailyPath(d), Unwrap(c.daily[d])[k])
    \/ /\ c.note # None
       /\ \/ link_target = NotePath
          \/ \E k \in 1..Len(Unwrap(c.note)) :
                link_target = JoinPath(NotePath, Unwrap(c.note)[k])
    \/ \E k \in 1..Len(c.root) : link_target = c.root[k].name

\* find_in_index_file, one line: the target of the line's first "](" link
\* when its text or its target contains the slug and the target exists
LinkAt(c, line, slug, start, end) ==
    IF start = 0 \/ end = 0 THEN None
    ELSE IF (Contains(SubSeq(line, 1, start - 1), slug)
             \/ Contains(SubSeq(line, start + 2, end - 1), slug))
            /\ Exists(c, SubSeq(line, start + 2, end - 1))
    THEN Some(SubSeq(line, start + 2, end - 1))
    ELSE None

LinkOfLine(c, line, slug) ==
    LinkAt(c, line, slug, Find(line, <<"]", "(">>),
           IF Find(line, <<"]", "(">>) = 0 THEN 0
           ELSE FindFrom(line, <<")">>, Find(line, <<"]", "(">>)))

\* find_in_index_file: the first line that yields a target
RECURSIVE FindInIndex(_, _, _, _)
FindInIndex(c, lines, i, slug) ==
    IF i > Len(lines) THEN None
    ELSE IF LinkOfLine(c, lines[i], slug) # None THEN LinkOfLine(c, lines[i], slug)
    ELSE FindInIndex(c, lines, i + 1, slug)

find_in_index_file(c, content, slug) == FindInIndex(c, Lines(content), 1, slug)

\* the candidates of search_in_index_files, in the order of fs::read_dir
RECURSIVE IndexScan(_, _, _, _)
IndexScan(c, i, slug, extensions) ==
    IF i > Len(c.root) THEN <<>>
    ELSE (IF StartsWith(c.root[i].name, <<"#">>) /\ HasExtension(c.root[i].name, extensions)
          THEN find_in_index_file(c, c.root[i].content, slug)
          ELSE <<>>)
         \o IndexScan(c, i + 1, slug, extensions)

search_in_index_files(c, slug, extensions) == Choice(IndexScan(c, 1, slug, extensions))

\* resolve_by_title, rule 3b and 3c
TitleInNotes(c, slug, extensions, in_note) ==
    IF in_note # ResolvedNotFound THEN in_note
    ELSE search_in_index_files(c, slug, extensions)

\* resolve_by_title, rule 3a and the rest
TitleInDaily(c, slug, extensions, in_daily) ==
    IF in_daily # ResolvedNotFound THEN in_daily
    ELSE TitleInNotes(c, slug, extensions,
                      IF c.note = None THEN ResolvedNotFound
                      ELSE find_by_prefix(Unwrap(c.note), NotePath, slug, extensions, FALSE))

resolve_by_title(c, slug, extensions) ==
    TitleInDaily(c, slug, extensions,
                 IF DailyDir(c, c.today) = None THEN ResolvedNotFound
                 ELSE find_by_prefix(Unwrap(DailyDir(c, c.today)), DailyPath(c.today),
                                     slug, extensions, TRUE))

\* reference.trim().replace('\\', "/")
Normalized(ref) ==
    [i \in 1..Len(Trim(ref)) |-> IF Trim(ref)[i] = "\\" THEN "/" ELSE Trim(ref)[i]]

\* rule 0 of resolve_note applies: YYYYMMDD/prefix with a valid date
IsDatePath(ref) ==
    /\ Find(ref, <<"/">>) # 0
    /\ Len(Trim(SubSeq(ref, 1, Find(ref, <<"/">>) - 1))) = 8
    /\ AllDigits(Trim(SubSeq(ref, 1, Find(ref, <<"/">>) - 1)))
    /\ validate_date(Trim(SubSeq(ref, 1, Find(ref, <<"/">>) - 1)))

\* rules 0, 1 and 2 of resolve_note: Some(<<date, prefix>>) when one of
\* them sends the reference to resolve_in_date_dir
DateRule(c, ref) ==
    IF IsDatePath(ref)
    THEN Some(<<Trim(SubSeq(ref, 1, Find(ref, <<"/">>) - 1)),
                slugify(Trim(From(ref, Find(ref, <<"/">>))))>>)
    ELSE IF parse_full_timestamp(ref) # None THEN parse_full_timestamp(ref)
    ELSE IF extract_time_prefix(ref) # None
    THEN Some(<<c.today, Unwrap(extract_time_prefix(ref))>>)
    ELSE None

\* a resolve_note whose date rules go on to the title rule, with their
\* prefix, when the date directory has no match
ResolveCascading(c, ref, extensions) ==
    IF DateRule(c, ref) # None
       /\ resolve_in_date_dir(c, Unwrap(DateRule(c, ref))[1], Unwrap(DateRule(c, ref))[2],
                              extensions) # ResolvedNotFound
    THEN resolve_in_date_dir(c, Unwrap(DateRule(c, ref))[1], Unwrap(DateRule(c, ref))[2],
                             extensions)
    ELSE resolve_by_title(c, IF DateRule(c, ref) # None THEN Unwrap(DateRule(c, ref))[2]
                             ELSE slugify(ref), extensions)

\* resolve_note after the normalization of the reference; rule 3 is the
\* title slug
ResolveNormalized(c, ref, extensions) ==
    IF DateRule(c, ref) # None
    THEN resolve_in_date_dir(c, Unwrap(DateRule(c, ref))[1], Unwrap(DateRule(c, ref))[2],
                             extensions)
    ELSE resolve_by_title(c, slugify(ref), extensions)

resolve_note(c, ref, extensions) == ResolveNormalized(c, Normalized(ref), extensions)

----------------------------------------------------------------------------
(* Spec: the task commands, run one after the other on one TASK.md         *)

MaxLines == 11      \* most lines of TASK.md (the empty file with one reference has 7)

TASK01 == TASK_PREFIX \o <<"0", "1">>
TASK02 == TASK_PREFIX \o <<"0", "2">>

TaskIds == {TASK01}
EnvAgents == {None, Some(<<"a">>), Some(<<"b">>)}      \* EMX_AGENT_NAME
Titles == {None, Some(<<"a", "@">>)}                  \* --title
Headers == {None}                                     \* --header
Messages == {<<"m">>, <<"n">>}
Gits == {None}                                        \* --git
Timestamps == {<<"t">>}                               \* EMX_TASK_TIMESTAMP
NodeRefs == {<<"n", "1">>}                            \* notes that resolve
IdLists == {<<TASK01>>, <<TASK01, TASK01>>}
DryRuns == {FALSE}                                    \* --dry-run

Idle == [cmd |-> "none"]
NoRace == [file0 |-> None, proc |-> <<>>]

\* the number of "\n" in content
NumLines(content) == Cardinality({i \in 1..Len(content) : content[i] = NL})

\* the file after a command: what its last save_task_content wrote
FileAfter(f, res) == IF res.saved = <<>> THEN f ELSE Some(res.saved[Len(res.saved)])

WithinBounds(res, max) ==
    IF res.saved = <<>> THEN TRUE ELSE NumLines(res.saved[Len(res.saved)]) <= max

NoResult == [ok |-> FALSE, err |-> [kind |-> "NotCalled"]]

TInit ==
    /\ capsa = NoCapsa /\ reference = <<>> /\ resolved = Unresolved
    /\ taskfile = None
    /\ last = Idle
    /\ holder = [id \in TaskIds |-> None]
    /\ econtent = <<>> /\ eedits = <<>> /\ eresult = NoResult
    /\ race = NoRace

\* a command returns: its outcome is recorded and the file takes what it saved
Ran(cmd, args, res, max) ==
    /\ WithinBounds(res, max)
    /\ taskfile' = FileAfter(taskfile, res)
    /\ last' = [cmd |-> cmd, args |-> args, before |-> taskfile, res |-> res,
                held |-> holder]
    /\ UNCHANGED <<evars, race, rvars>>

AddOf(node_refs, max) ==
    /\ last = Idle
    /\ \E node_ref \in node_refs, overflow_checks \in BOOLEAN :
        \E res \in {add_run(taskfile, node_ref, TRUE, overflow_checks)} :
            /\ Ran("add", [node_ref |-> node_ref], res, max)
            /\ UNCHANGED holder

\* holder records the agent of a take that succeeded
TakeWith(agents, ids, titles, headers, dry_runs, max) ==
    /\ last = Idle
    /\ \E agent \in agents, id \in ids, title \in titles, header \in headers,
       dry_run \in dry_runs :
        \E res \in {take_run(taskfile, agent, id, title, header, dry_run)} :
            /\ Ran("take", [agent |-> agent, id |-> id, title |-> title,
                            header |-> header, dry_run |-> dry_run], res, max)
            /\ holder' = IF res.ok /\ ~dry_run /\ IsSome(agent)
                         THEN [holder EXCEPT ![id] = agent]
                         ELSE holder

TakeOf(agents, ids, titles, max) == TakeWith(agents, ids, titles, Headers, DryRuns, max)

CommentWith(ids, messages, dry_runs, max) ==
    /\ last = Idle
    /\ \E id \in ids, message \in messages, git \in Gits, ts \in Timestamps,
       dry_run \in dry_runs :
        \E res \in {comment_run(taskfile, id, message, git, ts, dry_run)} :
            /\ Ran("comment", [id |-> id, message |-> message, git |-> git, ts |-> ts,
                               dry_run |-> dry_run], res, max)
            /\ UNCHANGED holder

CommentOf(ids, messages, max) == CommentWith(ids, messages, DryRuns, max)

\* holder forgets the tasks a release command names, whatever the command did
ReleaseWith(agents, id_lists, dry_runs, max) ==
    /\ last = Idle
    /\ \E agent \in agents, ids \in id_lists, done \in BOOLEAN, force \in BOOLEAN,
       ts \in Timestamps, dry_run \in dry_runs :
        \E res \in {release_run(taskfile, agent, ids, done, force, ts, dry_run)} :
            /\ Ran("release", [agent |-> agent, ids |-> ids, done |-> done,
                               force |-> force, ts |-> ts, dry_run |-> dry_run], res, max)
            /\ holder' = [id \in DOMAIN holder |->
                             IF \E k \in 1..Len(ids) : ids[k] = id THEN None
                             ELSE holder[id]]

ReleaseOf(agents, id_lists, max) == ReleaseWith(agents, id_lists, DryRuns, max)

Add == AddOf(NodeRefs, MaxLines)
Take == TakeOf(EnvAgents, TaskIds, Titles, MaxLines)
Comment == CommentOf(TaskIds, Messages, MaxLines)
Release == ReleaseOf(EnvAgents, IdLists, MaxLines)

\* the shell is ready for the next command
Prompt ==
    /\ last # Idle
    /\ last' = Idle
    /\ UNCHANGED <<taskfile, holder, evars, race, rvars>>

TNext == Add \/ Take \/ Comment \/ Release \/ Prompt

Spec == TInit /\ [][TNext]_vars

----------------------------------------------------------------------------
(* SpecPair: the task commands on a TASK.md with two tasks                 *)

PairMaxLines == 13  \* two references, two entries and one comment make 13 lines

PairTaskIds == {TASK01, TASK02}
PairAgents == {Some(<<"a">>)}
PairNodeRefs == {<<"n", "1">>, <<"n", "2">>}
PairIdLists == {<<TASK01>>, <<TASK01, TASK02>>, <<TASK02, TASK01>>}

PairInit ==
    /\ capsa = NoCapsa /\ reference = <<>> /\ resolved = Unresolved
    /\ taskfile = None
    /\ last = Idle
    /\ holder = [id \in PairTaskIds |-> None]
    /\ econtent = <<>> /\ eedits = <<>> /\ eresult = NoResult
    /\ race = NoRace

PairAdd == AddOf(PairNodeRefs, PairMaxLines)
PairTake == TakeOf(PairAgents, PairTaskIds, {None}, PairMaxLines)
PairComment == CommentOf(PairTaskIds, {<<"m">>}, PairMaxLines)
PairRelease == ReleaseOf(PairAgents, PairIdLists, PairMaxLines)

PairNext == PairAdd \/ PairTake \/ PairComment \/ PairRelease \/ Prompt

SpecPair == PairInit /\ [][PairNext]_vars

----------------------------------------------------------------------------
(* SpecOpts: the task commands with --header and --dry-run, on two tasks   *)

OptMaxLines == 14   \* two references, a header, two entries and a comment make 15 lines

OptAgents == {Some(<<"a">>)}
OptHeaders == {None, Some(<<"H">>), Some(<<"#", "#", " ", "G">>)}
OptIdLists == {<<TASK01>>}

OptInit ==
    /\ capsa = NoCapsa /\ reference = <<>> /\ resolved = Unresolved
    /\ taskfile = None
    /\ last = Idle
    /\ holder = [id \in PairTaskIds |-> None]
    /\ econtent = <<>> /\ eedits = <<>> /\ eresult = NoResult
    /\ race = NoRace

OptAdd == AddOf(PairNodeRefs, OptMaxLines)
OptTake == TakeWith(OptAgents, PairTaskIds, {None}, OptHeaders, BOOLEAN, OptMaxLines)
OptComment == CommentWith({TASK01}, {<<"m">>}, BOOLEAN, OptMaxLines)
OptRelease == ReleaseWith(OptAgents, OptIdLists, BOOLEAN, OptMaxLines)

OptNext == OptAdd \/ OptTake \/ OptComment \/ OptRelease \/ Prompt

SpecOpts == OptInit /\ [][OptNext]_vars

----------------------------------------------------------------------------
(* SpecNext: next_task_id on task files with a frontmatter prefix or none  *)
(* and reference definitions whose ids are taken from NextIds              *)

NextMaxRefs == 2

BUG_PREFIX == <<"B", "U", "G", "-">>
NextPrefixes == {None, Some(TASK_PREFIX), Some(BUG_PREFIX)}
NextIds ==
    { TASK_PREFIX \o <<"0", "1">>, TASK_PREFIX \o <<"9">>, TASK_PREFIX \o <<"9", "9">>,
      TASK_PREFIX \o <<"x", "1">>, TASK_PREFIX, TASK_PREFIX \o <<"+", "5">>,
      BUG_PREFIX \o <<"0", "5">>,
      TASK_PREFIX \o U32_MAX, TASK_PREFIX \o Succ(U32_MAX) }

\* the reference definitions '[id]: n' of ids from the k-th on, one per line
RECURSIVE RefText(_, _)
RefText(ids, k) ==
    IF k > Len(ids) THEN <<>>
    ELSE IdTag(ids[k]) \o <<":", " ", "n", NL>> \o RefText(ids, k + 1)

\* a task file with the frontmatter prefix `prefix` (None: no PREFIX line),
\* an empty body and the reference definitions of ids
NextFile(prefix, ids) ==
    DASHES \o <<NL>>
    \o (IF prefix = None THEN <<>> ELSE PREFIX_KEY \o <<SP>> \o Unwrap(prefix) \o <<NL>>)
    \o DASHES \o <<NL>>
    \o <<NL>>
    \o DASHES \o <<NL>>
    \o <<NL>>
    \o RefText(ids, 1)

NextInit ==
    /\ capsa = NoCapsa /\ reference = <<>> /\ resolved = Unresolved
    /\ taskfile \in {Some(NextFile(prefix, ids)) :
                        prefix \in NextPrefixes,
                        ids \in UNION {[1..n -> NextIds] : n \in 0..NextMaxRefs}}
    /\ last = Idle
    /\ holder = <<>>
    /\ econtent = <<>> /\ eedits = <<>> /\ eresult = NoResult
    /\ race = NoRace

\* TaskFileReader::load(path)?.next_task_id()
NextTaskId ==
    /\ last = Idle
    /\ \E overflow_checks \in BOOLEAN :
        \E id \in {next_task_id(Unwrap(taskfile),
                                ReaderPrefix(taskfile, extract_frontmatter_prefix(Unwrap(taskfile))),
                                overflow_checks)} :
            /\ Ran("next_task_id", [overflow_checks |-> overflow_checks],
                   IF id = None THEN Failed(Panicked) ELSE Returned(<<>>, <<Unwrap(id)>>), 0)
            /\ UNCHANGED holder

NextNext == NextTaskId \/ Prompt

SpecNext == NextInit /\ [][NextNext]_vars

----------------------------------------------------------------------------
(* SpecAdd: task add of several notes, one of them named with a blank,     *)
(* with takes of the first two tasks in between; the capsa starts without  *)
(* task file or with one whose largest id is at the end of the u32 range   *)

AddMaxLines == 12   \* the default file has 6 lines; a reference is 1 line, an entry 2

AddNodeRefs == {<<"n", "1">>, <<"n", "2">>, <<"a", " ", "b">>}

\* a task file whose largest id is TASK-4294967295, as after 2^32 - 1
\* allocations (the definitions before it are left out)
LimitFile == NextFile(Some(TASK_PREFIX), <<TASK_PREFIX \o U32_MAX>>)

AddInit ==
    /\ capsa = NoCapsa /\ reference = <<>> /\ resolved = Unresolved
    /\ taskfile \in {None, Some(LimitFile)}
    /\ last = Idle
    /\ holder = [id \in PairTaskIds |-> None]
    /\ econtent = <<>> /\ eedits = <<>> /\ eresult = NoResult
    /\ race = NoRace

AddNote == AddOf(AddNodeRefs, AddMaxLines)
AddTake == TakeWith(PairAgents, PairTaskIds, {None}, {None}, {FALSE}, AddMaxLines)

AddNext == AddNote \/ AddTake \/ Prompt

SpecAdd == AddInit /\ [][AddNext]_vars

----------------------------------------------------------------------------
(* SpecText: the task commands on one task, with a comment message of one  *)
(* line and one of two lines whose second line is "---"                    *)

TextMaxLines == 12

TextMessages == {<<"m">>, <<"m", NL, "-", "-", "-">>}

TextInit ==
    /\ capsa = NoCapsa /\ reference = <<>> /\ resolved = Unresolved
    /\ taskfile = None
    /\ last = Idle
    /\ holder = [id \in TaskIds |-> None]
    /\ econtent = <<>> /\ eedits = <<>> /\ eresult = NoResult
    /\ race = NoRace

TextAdd == AddOf(NodeRefs, TextMaxLines)
TextTake == TakeWith(PairAgents, TaskIds, {None}, {None}, {FALSE}, TextMaxLines)
TextComment == CommentWith(TaskIds, TextMessages, {FALSE}, TextMaxLines)
TextRelease == ReleaseWith(PairAgents, {<<TASK01>>}, {FALSE}, TextMaxLines)

TextNext == TextAdd \/ TextTake \/ TextComment \/ TextRelease \/ Prompt

SpecText == TextInit /\ [][TextNext]_vars

----------------------------------------------------------------------------
(* SpecRace: two take commands whose reads and writes of TASK.md interleave *)

Procs == {1, 2}
Other(p) == 3 - p

\* TASK.md after `task add n1`
FileAdded == FileAfter(None, add_run(None, <<"n", "1">>, TRUE, TRUE))
\* ... and after a take without EMX_AGENT_NAME, which leaves an unowned entry
FileEntered == FileAfter(FileAdded, take_run(FileAdded, None, TASK01, None, None, FALSE))
\* ... or after a take by agent a
FileOwned ==
    FileAfter(FileAdded, take_run(FileAdded, Some(<<"a">>), TASK01, None, None, FALSE))

RaceFiles == {FileAdded, FileEntered, FileOwned}

RaceInit ==
    /\ capsa = NoCapsa /\ reference = <<>> /\ resolved = Unresolved
    /\ taskfile \in RaceFiles
    /\ \E agents \in [Procs -> EnvAgents] :
          race = [file0 |-> taskfile,
                  proc |-> [p \in Procs |->
                              [pc |-> "start", agent |-> agents[p], snap |-> None,
                               res |-> NoResult, after_other |-> FALSE,
                               second |-> FALSE]]]
    /\ last = Idle
    /\ holder = <<>>
    /\ econtent = <<>> /\ eedits = <<>> /\ eresult = NoResult

\* load_task_content: process p reads TASK.md
RaceRead(p) ==
    /\ race.proc[p].pc = "start"
    /\ race' = [race EXCEPT !.proc[p].pc = "read",
                            !.proc[p].snap = taskfile,
                            !.proc[p].after_other = (race.proc[Other(p)].pc = "done")]
    /\ UNCHANGED <<taskfile, last, holder, evars, rvars>>

\* the rest of take::run on what p read, save_task_content included
RaceWrite(p) ==
    /\ race.proc[p].pc = "read"
    /\ \E res \in {take_run(race.proc[p].snap, race.proc[p].agent, TASK01, None, None,
                            FALSE)} :
          /\ taskfile' = FileAfter(taskfile, res)
          /\ race' = [race EXCEPT !.proc[p].pc = "done",
                                  !.proc[p].res = res,
                                  !.proc[p].second = (race.proc[Other(p)].pc = "done")]
    /\ UNCHANGED <<last, holder, evars, rvars>>

RaceNext == \E p \in Procs : RaceRead(p) \/ RaceWrite(p)

SpecRace == RaceInit /\ [][RaceNext]_vars

----------------------------------------------------------------------------
(* SpecEdit: apply_edits on bounded inputs                                 *)

MaxLen == 3         \* longest content string
MaxEdits == 2       \* longest edit list

EChars == {"a", "b", NL}

RECURSIVE StringsUpTo(_, _)
StringsUpTo(chars, n) ==
    IF n = 0 THEN {<<>>}
    ELSE LET shorter == StringsUpTo(chars, n - 1)
         IN  shorter \cup {Append(s, c) : s \in {t \in shorter : Len(t) = n - 1}, c \in chars}

EContents == StringsUpTo(EChars, MaxLen)

EOlds == {<<"a">>, <<"a", "a">>}
ENews == {<<>>, <<"b">>, <<"a", "a">>}
ELineTexts == {<<>>, <<"a">>}

EOps ==
    {Replace(old, new) : old \in EOlds, new \in ENews}
    \cup {InsertAtLine(line, c) : line \in 0..MaxLen, c \in ELineTexts}
    \cup {AppendOp(c) : c \in {<<>>, <<"b">>}}
    \cup {DeleteLine(c) : c \in ELineTexts}

RECURSIVE EditLists(_)
EditLists(n) ==
    IF n = 0 THEN {<<>>}
    ELSE LET shorter == EditLists(n - 1)
         IN  shorter \cup {Append(es, e) : es \in {t \in shorter : Len(t) = n - 1}, e \in EOps}

EInit ==
    /\ capsa = NoCapsa /\ reference = <<>> /\ resolved = Unresolved
    /\ econtent \in EContents
    /\ eedits = <<>>
    /\ eresult = NoResult
    /\ taskfile = None /\ last = Idle /\ holder = <<>> /\ race = NoRace

\* one call apply_edits(econtent, edits) with one of the edit lists
ApplyEditsOf(lists) ==
    /\ eresult = NoResult
    /\ \E edits \in lists :
          /\ eedits' = edits
          /\ eresult' = apply_edits(econtent, edits)
    /\ UNCHANGED econtent
    /\ UNCHANGED <<tvars, race, rvars>>

ApplyEdits == ApplyEditsOf(EditLists(MaxEdits))

ENext == ApplyEdits

SpecEdit == EInit /\ [][ENext]_vars

----------------------------------------------------------------------------
(* SpecLines: the line ops of apply_edits on contents with "\n" and "\r":  *)
(* one InsertAtLine, one DeleteLine, one Append, or an InsertAtLine        *)
(* followed by the DeleteLine of the inserted text                         *)

LineMaxLen == 3     \* longest content string

LContents == StringsUpTo({"a", NL, CR}, LineMaxLen)
LTexts == {<<>>, <<"a">>, <<"b">>, <<NL>>}

LEditLists ==
    {<<InsertAtLine(line, x)>> : line \in 0..(LineMaxLen + 1), x \in LTexts}
    \cup {<<InsertAtLine(line, x), DeleteLine(x)>> : line \in 0..(LineMaxLen + 1), x \in LTexts}
    \cup {<<DeleteLine(x)>> : x \in LTexts}
    \cup {<<AppendOp(x)>> : x \in LTexts \cup {<<NL>>, <<"a", NL>>}}

LInit ==
    /\ capsa = NoCapsa /\ reference = <<>> /\ resolved = Unresolved
    /\ econtent \in LContents
    /\ eedits = <<>>
    /\ eresult = NoResult
    /\ taskfile = None /\ last = Idle /\ holder = <<>> /\ race = NoRace

ApplyLineEdits == ApplyEditsOf(LEditLists)

LNext == ApplyLineEdits

SpecLines == LInit /\ [][LNext]_vars

----------------------------------------------------------------------------
(* SpecResolve: one call of resolve_note on a bounded capsa                *)

ResolveMaxFiles == 2    \* most entries of one directory

D1 == <<"2", "0", "2", "4", "0", "1", "1", "5">>
D2 == <<"2", "0", "2", "4", "0", "1", "1", "6">>

N_STANDUP == <<"1", "4", "3", "0", "2", "2", "-", "s", "t", "a", "n", "d", "u", "p", ".", "m", "d">>

DailyNames == {N_STANDUP,
               <<"1", "5", "0", "0", "0", "0", "-", "s", "t", "a", "n", "d", "u", "p", ".", "m", "d">>,
               <<"p", "l", "a", "n", ".", "m", "d">>}
NoteNames == {<<"a", ".", "m", "d">>, <<"a", "b", ".", "m", "d">>, <<"p", "l", "a", "n", ".", "t", "x", "t">>}

\* the index files: two links on two lines, one link, and a file that is
\* no index file by its extension
IndexFiles ==
    {[name |-> <<"#", "w", "o", "r", "k", ".", "m", "d">>,
      content |-> <<"[", "p", "l", "a", "n", " ", "a", "]", "(", "n", "o", "t", "e", "/", "a", ".", "m", "d", ")", "\n", "[", "p", "l", "a", "n", " ", "a", "b", "]", "(", "n", "o", "t", "e", "/", "a", "b", ".", "m", "d", ")">>],
     [name |-> <<"#", "t", "e", "a", "m", ".", "m", "d">>,
      content |-> <<"s", "e", "e", " ", "[", "p", "l", "a", "n", "]", "(", "n", "o", "t", "e", "/", "a", ".", "m", "d", ")">>],
     [name |-> <<"#", "o", "l", "d", ".", "t", "x", "t">>,
      content |-> <<"[", "p", "l", "a", "n", "]", "(", "n", "o", "t", "e", "/", "a", "b", ".", "m", "d", ")">>]}

\* the orders in which fs::read_dir can list up to n of the entries
Listings(entries, n) ==
    {l \in UNION {[1..k -> entries] : k \in 0..n} :
        \A i, j \in 1..Len(l) : i # j => l[i] # l[j]}

\* the title reference of the standup notes
STANDUP == <<"s", "t", "a", "n", "d", "u", "p">>

References ==
    {<<"1", "4", "3", "0", "2", "2">>, <<"1">>, <<"S", "t", "a", "n", "d", "u", "p">>,
     <<"2", "0", "2", "4", "0", "1", "1", "5", "/", "s", "t", "a", "n", "d", "u", "p">>,
     <<"2", "0", "2", "4", "0", "1", "1", "5", "/", "1", "4", "3", "0", "2", "2", "-", "s">>,
     <<"2", "0", "2", "4", "0", "1", "1", "5", "1", "4", "3", "0", "2", "2">>,
     <<"p", "l", "a", "n">>, <<"a">>, STANDUP, <<"z", "z", "z">>}

RInit ==
    /\ capsa \in [today : {D1, D2},
                  daily : {[d \in {D1, D2} |-> IF d = D1 THEN first ELSE second] :
                               first \in {None} \cup {Some(l) : l \in Listings(DailyNames, ResolveMaxFiles)},
                               second \in {None, Some(<<N_STANDUP>>)}},
                  note : {None} \cup {Some(l) : l \in Listings(NoteNames, ResolveMaxFiles)},
                  root : Listings(IndexFiles, ResolveMaxFiles)]
    /\ reference = <<>> /\ resolved = Unresolved
    /\ econtent = <<>> /\ eedits = <<>> /\ eresult = NoResult
    /\ taskfile = None /\ last = Idle /\ holder = <<>> /\ race = NoRace

\* one call resolve_note(capsa, reference, DEFAULT_EXTENSIONS)
Resolve ==
    /\ resolved = Unresolved
    /\ \E ref \in References :
          /\ reference' = ref
          /\ resolved' = resolve_note(capsa, ref, DEFAULT_EXTENSIONS)
    /\ UNCHANGED capsa
    /\ UNCHANGED <<evars, tvars, race>>

RNext == Resolve

SpecResolve == RInit /\ [][RNext]_vars

----------------------------------------------------------------------------
(* SpecStamp: rule 1 of resolve_note, parse_full_timestamp, on references  *)
(* made of a date part, a time part and what follows them                  *)

StampDates ==
    {<<"2", "0", "2", "4", "0", "1", "1", "5">>,
     <<"1", "9", "0", "0", "0", "1", "0", "1">>,
     <<"2", "1", "0", "0", "1", "2", "3", "1">>,
     <<"1", "8", "9", "9", "1", "2", "3", "1">>,
     <<"2", "1", "0", "1", "0", "1", "0", "1">>,
     <<"2", "0", "2", "4", "0", "0", "1", "5">>,
     <<"2", "0", "2", "4", "1", "3", "1", "5">>,
     <<"2", "0", "2", "4", "0", "1", "0", "0">>,
     <<"2", "0", "2", "4", "0", "1", "3", "2">>}
StampTimes ==
    {<<"1", "4", "3", "0", "2", "2">>,
     <<"0", "0", "0", "0", "0", "0">>,
     <<"2", "3", "5", "9", "5", "9">>,
     <<"2", "4", "0", "0", "0", "0">>,
     <<"2", "3", "6", "0", "0", "0">>,
     <<"2", "3", "5", "9", "6", "0">>}
StampTails == {<<>>, <<"0">>, <<"x">>}

\* the references: date, time and tail, and the same without their last
\* two characters
StampReferences ==
    {d \o t \o x : d \in StampDates, t \in StampTimes, x \in StampTails}
    \cup {SubSeq(d \o t, 1, 12) : d \in StampDates, t \in StampTimes}

\* what rule 1 made of the reference
Stamped(stamp) == [kind |-> "Timestamp", stamp |-> stamp]

StampInit ==
    /\ capsa = NoCapsa /\ resolved = Unresolved
    /\ reference \in StampReferences
    /\ econtent = <<>> /\ eedits = <<>> /\ eresult = NoResult
    /\ taskfile = None /\ last = Idle /\ holder = <<>> /\ race = NoRace

\* rule 1 of resolve_note: parse_full_timestamp(&reference)
ParseStamp ==
    /\ resolved = Unresolved
    /\ resolved' = Stamped(parse_full_timestamp(Normalized(reference)))
    /\ UNCHANGED <<capsa, reference>>
    /\ UNCHANGED <<evars, tvars, race>>

StampNext == ParseStamp

SpecStamp == StampInit /\ [][StampNext]_vars

----------------------------------------------------------------------------
(* SpecRefs: extract_references and get_reference_dest on contents of a    *)
(* few lines                                                               *)

RefMaxLines == 3    \* most lines of the content

RefLineTexts ==
    {<<"[", "a", "]", ":", " ", "x">>,
     <<"[", "a", "]", ":", " ", "y", " ", "z">>,
     <<"[", "A", "]", ":", " ", "w">>,
     <<"[", "b", "]", ":", "v">>,
     <<"[", "a", "]", ":">>,
     <<"t", "e", "x", "t">>,
     <<" ", "[", "b", "]", ":", " ", "u">>}
RefIds == {<<"a">>, <<"A">>, <<"b">>}

RefsInit ==
    /\ capsa = NoCapsa /\ reference = <<>> /\ resolved = Unresolved
    /\ taskfile \in {Some(JoinNL(ls)) :
                        ls \in UNION {[1..n -> RefLineTexts] : n \in 0..RefMaxLines}}
    /\ last = Idle
    /\ holder = <<>>
    /\ econtent = <<>> /\ eedits = <<>> /\ eresult = NoResult
    /\ race = NoRace

\* extract_references(content) and get_reference_dest(content, ref_id) on
\* the same content
ReadRefs ==
    /\ last = Idle
    /\ \E ref_id \in RefIds :
          /\ Ran("extract_references", [ref_id |-> ref_id],
                 Returned(<<>>, <<extract_references(Unwrap(taskfile)),
                                  get_reference_dest(Unwrap(taskfile), ref_id)>>), 0)
          /\ UNCHANGED holder

RefsNext == ReadRefs \/ Prompt

SpecRefs == RefsInit /\ [][RefsNext]_vars

----------------------------------------------------------------------------
(* SpecCase: the task commands called with two spellings of one task id    *)

CaseMaxLines == 12  \* one reference, two entries and one comment make 12 lines

task01 == <<"t", "a", "s", "k", "-", "0", "1">>
CaseTaskIds == {TASK01, task01}
CaseIdLists == {<<TASK01>>, <<task01>>}

CaseInit ==
    /\ capsa = NoCapsa /\ reference = <<>> /\ resolved = Unresolved
    /\ taskfile = None
    /\ last = Idle
    /\ holder = [id \in CaseTaskIds |-> None]
    /\ econtent = <<>> /\ eedits = <<>> /\ eresult = NoResult
    /\ race = NoRace

CaseAdd == AddOf(NodeRefs, CaseMaxLines)
CaseTake == TakeWith(PairAgents, CaseTaskIds, {None}, {None}, {FALSE}, CaseMaxLines)
CaseComment == CommentWith(CaseTaskIds, {<<"m">>}, {FALSE}, CaseMaxLines)
CaseRelease == ReleaseWith(PairAgents, CaseIdLists, {FALSE}, CaseMaxLines)

CaseNext == CaseAdd \/ CaseTake \/ CaseComment \/ CaseRelease \/ Prompt

SpecCase == CaseInit /\ [][CaseNext]_vars

----------------------------------------------------------------------------
(* SpecConc: two add commands whose reads and writes of TASK.md interleave *)

ConcNodeRefs == {<<"n", "1">>, <<"n", "2">>, <<"n", "3">>}

\* TASK.md after `task add n1` and `task add n2`
FileAddedTwo == FileAfter(FileAdded, add_run(FileAdded, <<"n", "2">>, TRUE, TRUE))

ConcFiles == {None, FileAdded, FileAddedTwo}

\* the two commands name different notes
ConcInit ==
    /\ capsa = NoCapsa /\ reference = <<>> /\ resolved = Unresolved
    /\ taskfile \in ConcFiles
    /\ \E node_refs \in [Procs -> ConcNodeRefs] :
          /\ node_refs[1] # node_refs[2]
          /\ race = [file0 |-> taskfile,
                     proc |-> [p \in Procs |->
                                 [pc |-> "start", node_ref |-> node_refs[p],
                                  content |-> <<>>, loaded |-> None,
                                  res |-> NoResult]]]
    /\ last = Idle
    /\ holder = <<>>
    /\ econtent = <<>> /\ eedits = <<>> /\ eresult = NoResult

\* add::run, lines 18-30: process p reads TASK.md, or takes the default content
ConcRead(p) ==
    /\ race.proc[p].pc = "start"
    /\ race' = [race EXCEPT !.proc[p].pc = "read",
                            !.proc[p].content = load_task_content(taskfile)]
    /\ UNCHANGED <<taskfile, last, holder, evars, rvars>>

\* add::run, lines 32-36: TaskFileReader::load reads TASK.md again
ConcLoad(p) ==
    /\ race.proc[p].pc = "read"
    /\ race' = [race EXCEPT !.proc[p].pc = "loaded",
                            !.proc[p].loaded = taskfile]
    /\ UNCHANGED <<taskfile, last, holder, evars, rvars>>

\* the lines the reader of process p scans: those of the file it loaded, or
\* those of the default content when TASK.md did not exist
ConcReaderLines(p) ==
    IF race.proc[p].loaded # None THEN Lines(Unwrap(race.proc[p].loaded))
    ELSE Lines(race.proc[p].content)

\* add::run, lines 38-61, save_task_content included
ConcWrite(p) ==
    /\ race.proc[p].pc = "loaded"
    /\ \E res \in {AddLines(race.proc[p].loaded, race.proc[p].content,
                            ConcReaderLines(p), race.proc[p].node_ref, TRUE)} :
          /\ taskfile' = FileAfter(taskfile, res)
          /\ race' = [race EXCEPT !.proc[p].pc = "done", !.proc[p].res = res]
    /\ UNCHANGED <<last, holder, evars, rvars>>

ConcNext == \E p \in Procs : ConcRead(p) \/ ConcLoad(p) \/ ConcWrite(p)

SpecConc == ConcInit /\ [][ConcNext]_vars

----------------------------------------------------------------------------
(* Claims about the edit engine (checked under SpecEdit)                   *)

\* the content after the first k edits of eedits, while none of them failed
StepResult[k \in 0..MaxEdits] ==
    IF k = 0 THEN Ok(econtent)
    ELSE IF k > Len(eedits) \/ ~StepResult[k - 1].ok THEN StepResult[k - 1]
    ELSE apply_single_edit(StepResult[k - 1].val, eedits[k])

\* the indices of the ops that fail when applied to what their predecessors produced
FailingOps ==
    {k \in 1..Len(eedits) :
        /\ \A j \in 1..(k - 1) : StepResult[j].ok
        /\ ~StepResult[k].ok}

\* C1: apply_edits returns either the content produced by applying every op
\* in order, or the ValidationError of the first failing op and no content
\* at all (the effects of the earlier ops are discarded); the content
\* argument itself is never modified.
C1_AllOrNothing ==
    eresult # NoResult =>
        IF FailingOps = {}
        THEN eresult = Ok(StepResult[Len(eedits)].val)
        ELSE /\ ~eresult.ok
             /\ "val" \notin DOMAIN eresult
             /\ eresult.err = StepResult[MinOf(FailingOps)].err

\* C1 witness: a two-op batch whose first op changes the content and whose
\* second op fails, so that the batch returns an error
C1_Witness ==
    /\ eresult # NoResult
    /\ Len(eedits) = 2
    /\ StepResult[1].ok
    /\ StepResult[1].val # econtent
    /\ ~eresult.ok

\* every position at which p occurs in s
Occurrences(s, p) == {i \in 1..(Len(s) + 1) : OccAt(s, p, i)}

IsSingleReplace == eresult # NoResult /\ Len(eedits) = 1 /\ eedits[1].op = "Replace"

\* C2: Replace succeeds exactly when old occurs exactly once in the content
\* (then that occurrence is replaced and every other character is
\* unchanged); zero occurrences give NotFound, n > 1 occurrences give
\* MultipleMatches with count = n.
C2_ReplaceExactlyOnce ==
    IsSingleReplace =>
        LET old == eedits[1].old
            new == eedits[1].new
            occ == Occurrences(econtent, old)
            n == Cardinality(occ)
        IN  /\ eresult.ok <=> n = 1
            /\ n = 1 => eresult = Ok(ReplaceAt(econtent, old, new, MinOf(occ)))
            /\ n = 0 => eresult = Err(NotFound(old))
            /\ n > 1 => eresult = Err(MultipleMatches(old, n))

----------------------------------------------------------------------------
(* Claims about the task commands (checked under Spec)                     *)

\* what get_task reports for task_id in the file f (None: no such task)
TaskIn(f, task_id) == IF f = None THEN None ELSE get_task(Unwrap(f), task_id)

\* the comments `task log` lists for a task, given what get_task returned
CommentsOf(found) == IF found = None THEN <<>> ELSE Unwrap(found).comments

\* the comments `task log` lists for task_id in the file f
CommentsIn(f, task_id) == CommentsOf(TaskIn(f, task_id))

\* the owner of a task, given what get_task returned
OwnerOf(found) == IF found = None THEN None ELSE Unwrap(found).owner

\* the owner get_task reports for task_id in the file f
OwnerIn(f, task_id) == OwnerOf(TaskIn(f, task_id))

\* the command that just returned was cmd and it was no dry run
Just(cmd) == last.cmd = cmd /\ ~last.args.dry_run

\* C3: once a take by agent A has succeeded on a task, no take by a
\* different agent B succeeds on that task until a release of that task has
\* been performed (holder is A from A's successful take until the next
\* release command that names the task).
C3_TakeExcludesOthers ==
    (Just("take") /\ last.res.ok /\ IsSome(last.args.agent)
        /\ IsSome(last.held[last.args.id]))
    => last.held[last.args.id] = last.args.agent

\* C4: when an agent marker is configured and the task already has an
\* owner, take fails with the already-taken error that names that owner and
\* leaves the task file unchanged, whoever the calling agent is.
C4_OwnedTakeFails ==
    (last.cmd = "take" /\ IsSome(get_agent_name(last.args.agent)))
    => LET owner == OwnerIn(last.before, last.args.id)
       IN  IsSome(owner)
           => /\ ~last.res.ok
              /\ last.res.err = AlreadyTaken(Unwrap(owner))
              /\ last.res.saved = <<>>
              /\ taskfile = last.before

\* C4 witness: the agent that holds the task and owns its entry takes it again
C4_Witness ==
    /\ last.cmd = "take"
    /\ last.args.agent = Some(<<"a">>)
    /\ last.held[last.args.id] = Some(<<"a">>)
    /\ OwnerIn(last.before, last.args.id) = Some(<<"@", "a">>)
    /\ ~last.res.ok

\* C6: when no agent marker is configured, take is read-only: it leaves the
\* task file unchanged, whatever the state of the task.
C6_AnonymousTakeReadOnly ==
    (last.cmd = "take" /\ get_agent_name(last.args.agent) = None)
    => (last.res.saved = <<>> /\ taskfile = last.before)

\* the text `task log` shows for the comment line comment.rs writes
CommentText(timestamp, message, git) ==
    SubSeq(CommentLine(timestamp, message, git), 5, Len(CommentLine(timestamp, message, git)))

\* C7: a comment command that succeeds puts its comment after the comments
\* the task already has, so the comment log is in the order of execution.
C7_CommentAppended ==
    (Just("comment") /\ last.res.ok)
    => CommentsIn(taskfile, last.args.id)
         = Append(CommentsIn(last.before, last.args.id),
                  CommentText(last.args.ts, last.args.message, last.args.git))

\* C8: a command never removes or rewrites a comment: every comment reported
\* for a task before the command is reported for it afterwards, and the
\* task's comment list is not shorter.
C8_CommentsOnlyGrow ==
    last.cmd \in {"add", "take", "comment", "release"}
    => \A id \in TaskIds :
          LET before == CommentsIn(last.before, id)
              after == CommentsIn(taskfile, id)
          IN  /\ Len(after) >= Len(before)
              /\ \A k \in 1..Len(before) : \E j \in 1..Len(after) : after[j] = before[k]

\* the file after the release command that just returned is run again with
\* the same arguments
ReleasedAgain ==
    FileAfter(taskfile,
              release_run(taskfile, last.args.agent, last.args.ids, last.args.done,
                          last.args.force, last.args.ts, last.args.dry_run))

\* C9: release is idempotent: for every task state, agent configuration and
\* choice of done, the same release call executed a second time right after
\* the first leaves the task file exactly as the first call left it.
C9_ReleaseIdempotent == Just("release") => ReleasedAgain = taskfile

\* C9 amended: release without done is idempotent: for every task state,
\* agent configuration and choice of force, the same release call executed a
\* second time right after the first leaves the task file exactly as the
\* first call left it.
C9_ReleaseNotDoneIdempotent ==
    (Just("release") /\ ~last.args.done) => ReleasedAgain = taskfile

\* C9 witness: a release without done that rewrote the file
C9_Witness ==
    /\ Just("release")
    /\ ~last.args.done
    /\ last.res.ok
    /\ last.res.saved # <<>>
    /\ taskfile # last.before

----------------------------------------------------------------------------
(* Claims about a release that names several tasks (checked under SpecPair) *)

\* the checklist line of task_id in the file f (None: no entry)
EntryTextIn(f, task_id) ==
    IF f = None THEN None
    ELSE IF find_task_entry_line(Unwrap(f), task_id) = None THEN None
    ELSE Some(Unwrap(find_task_entry_line(Unwrap(f), task_id)).line)

\* the status get_task reports for task_id in the file f
StatusIn(f, task_id) ==
    IF TaskIn(f, task_id) = None THEN None ELSE Some(Unwrap(TaskIn(f, task_id)).status)

\* task_id has a task in f and get_task reports no owner for it
Unowned(f, task_id) == TaskIn(f, task_id) # None /\ OwnerIn(f, task_id) = None

\* C10: in a release with neither force nor done, an id whose task has no
\* owner is skipped: its checklist line, checkbox (status) and comments are
\* as before, and when every id of the call is skipped the call succeeds
\* without writing the task file.
C10_UnownedSkipped ==
    (Just("release") /\ ~last.args.done /\ ~last.args.force)
    => LET ids == last.args.ids
       IN  /\ \A k \in 1..Len(ids) :
                Unowned(last.before, ids[k])
                => /\ EntryTextIn(taskfile, ids[k]) = EntryTextIn(last.before, ids[k])
                   /\ StatusIn(taskfile, ids[k]) = StatusIn(last.before, ids[k])
                   /\ CommentsIn(taskfile, ids[k]) = CommentsIn(last.before, ids[k])
           /\ (\A k \in 1..Len(ids) : Unowned(last.before, ids[k]))
              => /\ last.res.ok
                 /\ last.res.saved = <<>>
                 /\ taskfile = last.before

\* C10 witness: a release of an owned task and of an unowned task that has an
\* entry and a comment; the call rewrote the file
C10_Witness ==
    /\ Just("release") /\ ~last.args.done /\ ~last.args.force
    /\ last.args.ids = <<TASK01, TASK02>>
    /\ IsSome(OwnerIn(last.before, TASK01))
    /\ Unowned(last.before, TASK02)
    /\ IsSome(EntryTextIn(last.before, TASK02))
    /\ CommentsIn(last.before, TASK02) # <<>>
    /\ last.res.ok
    /\ taskfile # last.before

----------------------------------------------------------------------------
(* Claims about concurrent takes (checked under SpecRace)                  *)

\* both commands have returned
RaceDone == \A p \in Procs : race.proc[p].pc = "done"

\* both commands run with an agent marker configured
RaceNamed == \A p \in Procs : IsSome(get_agent_name(race.proc[p].agent))

\* the file a command saved
SavedBy(res) == Some(res.saved[Len(res.saved)])

\* C5: when two agents concurrently take the same task, with reads and
\* writes interleaved arbitrarily, at most one reports success: one of them
\* fails and writes nothing.
C5_AtMostOneSucceeds ==
    (RaceDone /\ RaceNamed)
    => \E p \in Procs : ~race.proc[p].res.ok /\ race.proc[p].res.saved = <<>>

\* C5 amended: when two named agents concurrently take the same unowned
\* task, a take that reads the file after the other take has written fails
\* with the already-taken error naming the other agent and writes nothing,
\* and the file is what the other wrote; when both read before either
\* writes, both report success and the file is what the second writer
\* wrote, owned by the second writer alone.
C5_TakeRace ==
    (RaceDone /\ RaceNamed /\ Unowned(race.file0, TASK01))
    => \A p \in Procs :
          LET me == race.proc[p]
              other == race.proc[Other(p)]
          IN  /\ me.after_other
                 => /\ other.res.ok
                    /\ ~me.res.ok
                    /\ me.res.err = AlreadyTaken(<<"@">> \o Unwrap(other.agent))
                    /\ me.res.saved = <<>>
                    /\ taskfile = SavedBy(other.res)
              /\ (~me.after_other /\ ~other.after_other /\ me.second)
                 => /\ me.res.ok /\ other.res.ok
                    /\ taskfile = SavedBy(me.res)
                    /\ OwnerIn(taskfile, TASK01) = Some(<<"@">> \o Unwrap(me.agent))

\* C5 witness: agents a and b both read the unowned task before either
\* wrote, and both report success
C5_Witness ==
    /\ RaceDone
    /\ Unowned(race.file0, TASK01)
    /\ race.proc[1].agent = Some(<<"a">>)
    /\ race.proc[2].agent = Some(<<"b">>)
    /\ ~race.proc[1].after_other /\ ~race.proc[2].after_other
    /\ race.proc[1].res.ok /\ race.proc[2].res.ok
    /\ race.proc[2].second

----------------------------------------------------------------------------
(* Claims about release and take of one task (checked under Spec)          *)

\* task_id has a checklist entry and an owner in the file f
OwnedEntry(f, task_id) ==
    IsSome(EntryTextIn(f, task_id)) /\ IsSome(OwnerIn(f, task_id))

\* C11: a release that succeeds on a task with a checklist entry and an
\* owner leaves the task with its title, without owner, and with status Done
\* exactly when done was set (the entry keeps its [id], loses its owner
\* marker and has its checkbox set per done).
C11_ReleaseStripsOwner ==
    (Just("release") /\ last.res.ok)
    => \A k \in 1..Len(last.args.ids) :
          LET id == last.args.ids[k]
              tb == TaskIn(last.before, id)
              ta == TaskIn(taskfile, id)
          IN  OwnedEntry(last.before, id)
              => /\ ta # None
                 /\ Unwrap(ta).owner = None
                 /\ Unwrap(ta).title = Unwrap(tb).title
                 /\ (Unwrap(ta).status = "Done") = last.args.done
                 /\ (Unwrap(ta).status = "Doing") = ~last.args.done

\* C12: without force and without done, a release by an agent that is not
\* the owner of the task leaves the owner marker in place.
C12_ReleaseByOwnerOnly ==
    (Just("release") /\ ~last.args.force /\ ~last.args.done
        /\ IsSome(get_agent_name(last.args.agent)))
    => \A k \in 1..Len(last.args.ids) :
          LET id == last.args.ids[k]
              owner == OwnerIn(last.before, id)
          IN  (IsSome(owner) /\ owner # get_agent_name(last.args.agent))
              => OwnerIn(taskfile, id) = owner

\* the status of task_id in f is Backlog: a reference definition and no entry
InBacklog(f, task_id) == StatusIn(f, task_id) = Some("Backlog")

\* the lines of the file f
FileLines(f) == IF f = None THEN <<>> ELSE Lines(Unwrap(f))

\* "## Done"
DONE_HEADER == <<"#", "#", " ", "D", "o", "n", "e">>

\* C13: release with done on a task in Backlog succeeds, inserts the checked
\* entry '- [x] [title][id]' for it, the body has a 'Done' header afterwards
\* (created if there was none), and the task's status is Done.
C13_DoneFromBacklog ==
    (Just("release") /\ last.args.done /\ Len(last.args.ids) = 1
        /\ InBacklog(last.before, last.args.ids[1]))
    => LET id == last.args.ids[1]
           tb == Unwrap(TaskIn(last.before, id))
       IN  /\ last.res.ok
           /\ EntryTextIn(taskfile, id) = Some(EntryLine(CHECKED, tb.node_ref, id, <<>>))
           /\ StatusIn(taskfile, id) = Some("Done")
           /\ \E i \in 1..Len(FileLines(taskfile)) :
                 Trim(FileLines(taskfile)[i]) = DONE_HEADER

\* the lines ls with the lines new inserted after the first p of them
InsertedAt(ls, p, new) == SubSeq(ls, 1, p) \o new \o SubSeq(ls, p + 1, Len(ls))

\* the 1-based index of the n-th "---" line of lines (0: there is none)
RECURSIVE NthDashes(_, _)
NthDashes(lines, n) ==
    IF n = 1 THEN FirstDashes(lines, 1) ELSE DashesAfter(lines, NthDashes(lines, n - 1))

\* the references of the file f
RefsIn(f) == IF f = None THEN <<>> ELSE extract_references(Unwrap(f))

\* the title take gives a new entry: the supplied title, else the node_ref
NewTitle(title, task) == IF IsSome(title) THEN Unwrap(title) ELSE task.node_ref

\* C14: take by a configured agent A of a task in Backlog succeeds and
\* inserts the one checklist line '- [ ] [title][id] @A' (followed by a
\* blank line) between the second and the third "---" line; afterwards the
\* task is Doing with owner A and the reference definitions are unchanged.
C14_TakeFromBacklog ==
    (Just("take") /\ IsSome(get_agent_name(last.args.agent))
        /\ InBacklog(last.before, last.args.id))
    => LET id == last.args.id
           marker == Unwrap(get_agent_name(last.args.agent))
           entry == EntryLine(UNCHECKED,
                              NewTitle(last.args.title, Unwrap(TaskIn(last.before, id))),
                              id, <<SP>> \o marker)
           lb == FileLines(last.before)
       IN  /\ last.res.ok
           /\ \E p \in NthDashes(lb, 2)..(NthDashes(lb, 3) - 1) :
                 FileLines(taskfile) = InsertedAt(lb, p, <<entry, <<>>>>)
           /\ StatusIn(taskfile, id) = Some("Doing")
           /\ OwnerIn(taskfile, id) = Some(marker)
           /\ RefsIn(taskfile) = RefsIn(last.before)

----------------------------------------------------------------------------
(* Claims about --header and --dry-run (checked under SpecOpts)            *)

\* the 1-based indices of the body lines: those between the second and the
\* third "---" line
BodyRange(ls) == (NthDashes(ls, 2) + 1)..(NthDashes(ls, 3) - 1)

\* the body lines of ls that are the header hdr
HeaderAt(ls, hdr) == {i \in BodyRange(ls) : Trim(ls[i]) = HeaderLine(hdr)}

\* some body line of ls is a '##' header
AnyHeader(ls) == \E i \in BodyRange(ls) : StartsWith(Trim(ls[i]), <<"#", "#">>)

\* what the take that just returned did with its header, the file lines
\* before it being lb
HeaderHonoured(lb) ==
    LET id == last.args.id
        hdr == Unwrap(last.args.header)
        entry == EntryLine(UNCHECKED,
                           NewTitle(last.args.title, Unwrap(TaskIn(last.before, id))), id,
                           IF IsSome(get_agent_name(last.args.agent))
                           THEN <<SP>> \o Unwrap(get_agent_name(last.args.agent))
                           ELSE <<>>)
    IN  IF HeaderAt(lb, hdr) # {}
        THEN /\ last.res.ok
             /\ FileLines(taskfile) = InsertedAt(lb, MinOf(HeaderAt(lb, hdr)), <<entry, <<>>>>)
        ELSE IF AnyHeader(lb)
        THEN /\ ~last.res.ok
             /\ last.res.err = HeaderNotFound(HeaderLine(hdr))
             /\ taskfile = last.before
        ELSE /\ last.res.ok
             /\ \E p \in NthDashes(lb, 2)..(NthDashes(lb, 3) - 1) :
                   FileLines(taskfile)
                       = InsertedAt(lb, p, <<HeaderLine(hdr), <<>>, entry, <<>>>>)

\* C15 as stated: every take with a header of a task that may be taken (it
\* has a reference and no owner) fails with 'Header not found' and leaves
\* the file unchanged when the header is absent while another '##' header
\* exists, creates the header immediately before the new entry when the body
\* has no header, and inserts the entry directly below the header when it
\* exists.
C15_HeaderHonoured ==
    (Just("take") /\ IsSome(last.args.header) /\ Unowned(last.before, last.args.id))
    => HeaderHonoured(FileLines(last.before))

\* C15 (amended): the same for a take of a task that is still in Backlog,
\* so that the take inserts a new entry; the created header is followed by a
\* blank line and then the entry.
C15_HeaderOfNewEntry ==
    (Just("take") /\ IsSome(last.args.header) /\ InBacklog(last.before, last.args.id))
    => HeaderHonoured(FileLines(last.before))

\* C15 witness: a take of a Backlog task named a header that is absent while
\* the body has another header, and failed with 'Header not found'
C15_Witness ==
    /\ Just("take") /\ IsSome(last.args.header) /\ InBacklog(last.before, last.args.id)
    /\ HeaderAt(FileLines(last.before), Unwrap(last.args.header)) = {}
    /\ AnyHeader(FileLines(last.before))
    /\ ~last.res.ok

\* a take of a Backlog task created its header
C15_Created ==
    /\ Just("take") /\ IsSome(last.args.header) /\ InBacklog(last.before, last.args.id)
    /\ ~AnyHeader(FileLines(last.before))
    /\ last.res.ok

\* a take of a Backlog task inserted below an existing header
C15_Below ==
    /\ Just("take") /\ IsSome(last.args.header) /\ InBacklog(last.before, last.args.id)
    /\ HeaderAt(FileLines(last.before), Unwrap(last.args.header)) # {}
    /\ last.res.ok

\* task_id has no reference definition in f
NoReference(f, task_id) ==
    \A k \in 1..Len(RefsIn(f)) : RefsIn(f)[k][1] # task_id

\* the command that just returned failed with err and left the file as it was
Refused(err) == ~last.res.ok /\ last.res.err = err /\ taskfile = last.before

\* C16: comment (dry run or not) on an id without reference definition
\* fails with 'not found', comment on a task still in Backlog fails with the
\* error that hints at 'task take'; either way the task file is unchanged
\* and the task has no comment.
C16_CommentRefused ==
    last.cmd = "comment"
    => LET id == last.args.id
       IN  /\ NoReference(last.before, id)
              => Refused(TaskNotFound(id)) /\ CommentsIn(taskfile, id) = <<>>
           /\ InBacklog(last.before, id)
              => Refused(NotInBody(id)) /\ CommentsIn(taskfile, id) = <<>>

\* C16 witness: a comment on a task in Backlog was refused
C16_Witness ==
    /\ Just("comment") /\ InBacklog(last.before, last.args.id)
    /\ ~last.res.ok /\ taskfile = last.before

\* a comment on an id without reference was refused
C16_Unknown ==
    /\ Just("comment") /\ NoReference(last.before, last.args.id)
    /\ ~last.res.ok /\ taskfile = last.before

\* C17: a take, comment or release called with dry_run writes nothing: the
\* call saves no content and the task file after it is the task file before
\* it, whatever the file and the other arguments are.
C17_DryRunWritesNothing ==
    (last.cmd \in {"take", "comment", "release"} /\ last.args.dry_run)
    => last.res.saved = <<>> /\ taskfile = last.before

\* C17 witness: a release with dry_run succeeded on a task whose release
\* without dry_run rewrites the entry (the task has an owner)
C17_Witness ==
    /\ last.cmd = "release" /\ last.args.dry_run /\ last.res.ok
    /\ IsSome(OwnerIn(last.before, last.args.ids[1]))
    /\ taskfile = last.before

\* a take with dry_run succeeded on a task in Backlog
C17_Take ==
    /\ last.cmd = "take" /\ last.args.dry_run /\ last.res.ok
    /\ InBacklog(last.before, last.args.id)

\* a comment with dry_run succeeded
C17_Comment == last.cmd = "comment" /\ last.args.dry_run /\ last.res.ok

----------------------------------------------------------------------------
(* Claims about task add (checked under SpecAdd)                           *)

\* the 1-based indices of the lines of f that read '[id]: node_ref'
RefLinesOf(f, node_ref) ==
    {i \in 1..Len(FileLines(f)) :
        LET line == FileLines(f)[i]
            n == Len(line) - Len(node_ref) - 3
        IN  /\ n >= 1
            /\ line[1] = "["
            /\ SubSeq(line, n + 1, Len(line)) = <<"]", ":", " ">> \o node_ref
            /\ \A j \in 2..n : line[j] # "]"}

\* the id of the line '[id]: ...'
IdOfLine(line) == SubSeq(line, 2, Find(line, <<"]">>) - 1)

\* C18: an add of a node_ref that has a reference definition prints the id
\* of that definition and leaves the file unchanged, and no node_ref ever
\* has two reference definitions.
C18_AddIdempotent ==
    /\ \A node_ref \in AddNodeRefs : Cardinality(RefLinesOf(taskfile, node_ref)) <= 1
    /\ (last.cmd = "add" /\ RefLinesOf(last.before, last.args.node_ref) # {})
       => /\ last.res.ok
          /\ taskfile = last.before
          /\ \E i \in RefLinesOf(last.before, last.args.node_ref) :
                last.res.out = <<IdOfLine(FileLines(last.before)[i])>>

\* the ids of the lines of f that read '[id]:...', in file order
RECURSIVE IdsFrom(_, _)
IdsFrom(ls, i) ==
    IF i > Len(ls) THEN <<>>
    ELSE IF ls[i] # <<>> /\ ls[i][1] = "[" /\ Contains(ls[i], <<"]", ":">>)
    THEN <<IdOfLine(ls[i])>> \o IdsFrom(ls, i + 1)
    ELSE IdsFrom(ls, i + 1)

IdsIn(f) == IdsFrom(FileLines(f), 1)

\* the numeral after the prefix "TASK-" of an id
SuffixOf(task_id) == StripZeros(SubSeq(task_id, Len(TASK_PREFIX) + 1, Len(task_id)))

\* the add that just returned wrote a reference definition
Allocated == last.cmd = "add" /\ last.res.ok /\ taskfile # last.before

\* C19: the ids of the reference definitions are pairwise distinct, and an
\* add that allocates an id appends exactly one definition whose id has a
\* suffix greater than the suffix of every id the file held before.
C19_IdsNeverReused ==
    /\ \A i, j \in 1..Len(IdsIn(taskfile)) : i # j => IdsIn(taskfile)[i] # IdsIn(taskfile)[j]
    /\ Allocated
       => /\ IdsIn(taskfile) = IdsIn(last.before) \o last.res.out
          /\ \A k \in 1..Len(IdsIn(last.before)) :
                NumLess(SuffixOf(IdsIn(last.before)[k]), SuffixOf(last.res.out[1]))

----------------------------------------------------------------------------
(* Claims about next_task_id (checked under SpecNext)                      *)

\* the text after "PREFIX:" of the second line of f, None when that line is
\* no PREFIX line
PrefixIn(f) ==
    IF StartsWith(FileLines(f)[2], PREFIX_KEY)
    THEN Some(Trim(SubSeq(FileLines(f)[2], Len(PREFIX_KEY) + 1, Len(FileLines(f)[2]))))
    ELSE None

\* s is a decimal number: one or more digits, with or without a leading '+'
IsNumeric(s) ==
    LET d == IF s # <<>> /\ s[1] = "+" THEN Tail(s) ELSE s
    IN  d # <<>> /\ \A i \in 1..Len(d) : IsDigit(d[i])

\* the numerals of the numeric suffixes of the ids of f that start with prefix
NumericSuffixes(f, prefix) ==
    {StripZeros(IF s[1] = "+" THEN Tail(s) ELSE s) :
        s \in {SubSeq(IdsIn(f)[k], Len(prefix) + 1, Len(IdsIn(f)[k])) :
                 k \in {k \in 1..Len(IdsIn(f)) :
                          /\ StartsWith(IdsIn(f)[k], prefix)
                          /\ IsNumeric(SubSeq(IdsIn(f)[k], Len(prefix) + 1,
                                              Len(IdsIn(f)[k])))}}}

\* the largest of a set of numerals, 0 for the empty set
MaxNumeral(S) ==
    IF S = {} THEN <<"0">> ELSE CHOOSE m \in S : \A x \in S : ~NumLess(m, x)

\* C20: for a file with a frontmatter prefix, next_task_id returns the
\* prefix followed by 1 + the largest numeric suffix of the ids that start
\* with the prefix (1 when there is none), padded with a zero to two digits;
\* ids with another prefix or a suffix that is no number do not count.
C20_NextTaskId ==
    (last.cmd = "next_task_id" /\ IsSome(PrefixIn(last.before)))
    => LET prefix == Unwrap(PrefixIn(last.before))
       IN  /\ last.res.ok
           /\ last.res.out
                = <<prefix \o Format02(Succ(MaxNumeral(NumericSuffixes(last.before, prefix))))>>

----------------------------------------------------------------------------
(* Claims about the layout of the task file (checked under SpecText) and   *)
(* about what reaches disk (checked under Spec and SpecPair)               *)

\* the 1-based indices of the "---" lines of ls
DelimitersOf(ls) == {i \in 1..Len(ls) : Trim(ls[i]) = DASHES}

\* line is a checklist entry '- [' or a comment '  - '
IsBodyItem(line) ==
    StartsWith(Trim(line), ENTRY_START) \/ StartsWith(line, COMMENT_START)

\* line is a reference definition '[id]: ...'
IsRefLine(line) == line # <<>> /\ line[1] = "[" /\ Contains(line, <<"]", ":">>)

\* the layout of a task file of lines ls: three delimiters, entries and
\* comments between the second and the third, definitions after the third
LayoutOf(ls) ==
    /\ Cardinality(DelimitersOf(ls)) = 3
    /\ \A i \in 1..Len(ls) :
          /\ IsBodyItem(ls[i]) => NthDashes(ls, 2) < i /\ i < NthDashes(ls, 3)
          /\ IsRefLine(ls[i]) => NthDashes(ls, 3) < i

\* C21: once a command has created the task file, it has exactly three
\* '---' lines, every checklist entry and comment line lies between the
\* second and the third, and every reference definition after the third.
C21_LayoutKept == taskfile # None => LayoutOf(FileLines(taskfile))

\* C21 witness: a file with a reference definition, a checklist entry and a
\* comment, left by a release
C21_Witness ==
    /\ last.cmd = "release" /\ last.res.ok /\ taskfile # last.before
    /\ \E i, j, k \in 1..Len(FileLines(taskfile)) :
          /\ StartsWith(Trim(FileLines(taskfile)[i]), ENTRY_START)
          /\ StartsWith(FileLines(taskfile)[j], COMMENT_START)
          /\ IsRefLine(FileLines(taskfile)[k])

\* C22: a command that fails has saved nothing and leaves the task file as
\* it was; in particular a release that names an id without reference
\* definition, at any place of its id list, fails and changes nothing.
C22_NoPartialWrite ==
    /\ (last.cmd \in {"add", "take", "comment", "release"} /\ ~last.res.ok)
       => last.res.saved = <<>> /\ taskfile = last.before
    /\ (last.cmd = "release"
          /\ \E k \in 1..Len(last.args.ids) : NoReference(last.before, last.args.ids[k]))
       => ~last.res.ok /\ taskfile = last.before

\* C22 witness: a release of two ids failed at the second, unknown id after
\* the edits for the first, owned task had been computed
C22_Witness ==
    /\ Just("release") /\ Len(last.args.ids) = 2 /\ ~last.args.force
    /\ IsSome(OwnerIn(last.before, last.args.ids[1]))
    /\ NoReference(last.before, last.args.ids[2])
    /\ ~last.res.ok /\ last.res.err = TaskNotFound(last.args.ids[2])
    /\ taskfile = last.before

\* C23: an add, take, comment or release on an existing task file reads the
\* file exactly once and writes it at most once.
C23_OneReadOneWrite ==
    (last.cmd \in {"add", "take", "comment", "release"} /\ last.before # None)
    => last.res.reads = 1 /\ Len(last.res.saved) <= 1

\* the same without add, and without the commands that end with log::run
C23_TakeReadsOnce ==
    (last.cmd = "take" /\ last.before # None)
    => last.res.reads = 1 /\ Len(last.res.saved) <= 1

----------------------------------------------------------------------------
(* Claims about the single edit ops (checked under SpecEdit and SpecLines) *)

\* the call was apply_edits(econtent, [Replace{old, new}]) and old occurs
\* exactly once in econtent
UniqueReplace ==
    IsSingleReplace /\ Cardinality(Occurrences(econtent, eedits[1].old)) = 1

Fresh(q, s) == \A i \in 1..Len(q), j \in 1..Len(s) : q[i] # s[j]

----------------------------------------------------------------------------
(* Claims about the line ops (checked under SpecLines)                     *)

\* the call was InsertAtLine(i, x) with a valid index i, then DeleteLine(x)
RoundTrip ==
    /\ Len(eedits) = 2
    /\ eedits[1].op = "InsertAtLine" /\ eedits[2].op = "DeleteLine"
    /\ eedits[1].line <= Len(Lines(econtent))

\* a text without its final newline, when it has one
DropFinalNL(s) == IF EndsWith(s, <<NL>>) THEN SubSeq(s, 1, Len(s) - 1) ELSE s

\* equal up to trailing-newline normalization
SameText(a, b) == DropFinalNL(a) = DropFinalNL(b)

\* C25 (as stated): for every content c, valid index i and text x,
\* InsertAtLine(i, x) followed by DeleteLine(x) succeeds and returns c up to
\* trailing-newline normalization.
C25_RoundTrip ==
    RoundTrip => eresult.ok /\ SameText(eresult.val, econtent)

\* x holds neither "\n" nor "\r"
OneLine(x) == \A k \in 1..Len(x) : x[k] \notin {NL, CR}

\* x is one non-empty line, c has no "\r" and no line of c equals x
FreshLine(c, x) ==
    /\ x # <<>> /\ OneLine(x)
    /\ \A k \in 1..Len(c) : c[k] # CR
    /\ \A k \in 1..Len(Lines(c)) : Lines(c)[k] # x

\* C25 (amended): for a content c without "\r", a valid index i and a
\* non-empty one-line text x that equals no line of c, InsertAtLine(i, x)
\* followed by DeleteLine(x) succeeds and returns c up to trailing-newline
\* normalization.
C25_RoundTripFresh ==
    (RoundTrip /\ FreshLine(econtent, eedits[1].content))
    => eresult.ok /\ SameText(eresult.val, econtent)

\* C25 witness: a fresh line went between two lines of the content and was
\* deleted again
C25_Witness ==
    /\ RoundTrip /\ FreshLine(econtent, eedits[1].content)
    /\ Len(Lines(econtent)) = 2 /\ eedits[1].line = 1
    /\ eresult.ok

\* the call was one InsertAtLine
InsertCall == Len(eedits) = 1 /\ eedits[1].op = "InsertAtLine"

\* what the statement promises for InsertAtLine{line, x} on the text c
InsertPromise(c, line, x, r) ==
    IF line <= Len(Lines(c))
    THEN /\ r.ok
         /\ Lines(r.val) = InsertedAt(Lines(c), line, <<x>>)
         /\ EndsWith(r.val, <<NL>>) <=> EndsWith(c, <<NL>>)
    ELSE r = Err(InvalidLine(line, Len(Lines(c))))

\* C26 (as stated): InsertAtLine{line, content} on a text of n lines succeeds
\* exactly when line <= n, then yields the original lines with content as a
\* new line at index line and ends in a newline exactly when the original
\* did; for line > n it fails with InvalidLine{line, max_line = n}.
C26_InsertAtLine ==
    InsertCall => InsertPromise(econtent, eedits[1].line, eedits[1].content, eresult)

\* no line of c, as lines() yields it, ends in "\r"
NoLineEndsCR(c) == \A k \in 1..Len(Lines(c)) : ~EndsWith(Lines(c)[k], <<CR>>)

\* an empty line goes after the last line of a text without final newline
EmptyAtOpenEnd(c, line, x) ==
    /\ x = <<>>
    /\ line = Len(Lines(c))
    /\ ~EndsWith(c, <<NL>>)

\* C26 (amended): InsertAtLine{line, content}, with a content that holds
\* neither "\n" nor "\r", on a text of n lines none of which ends in "\r",
\* succeeds exactly when line <= n and then yields the original lines with
\* content as a new line at index line, ending in a newline exactly when
\* the original did, unless content is empty, line = n and the original
\* does not end in a newline; for line > n it fails with
\* InvalidLine{line, max_line = n}.
C26_InsertAtLineClosed ==
    (InsertCall /\ OneLine(eedits[1].content) /\ NoLineEndsCR(econtent))
    => /\ eresult.ok <=> eedits[1].line <= Len(Lines(econtent))
       /\ ~EmptyAtOpenEnd(econtent, eedits[1].line, eedits[1].content)
          => InsertPromise(econtent, eedits[1].line, eedits[1].content, eresult)

\* C26 witness: a line went between two lines of a text that ends in a newline
C26_Witness ==
    /\ InsertCall
    /\ Len(Lines(econtent)) = 2 /\ eedits[1].line = 1 /\ eedits[1].content # <<>>
    /\ EndsWith(econtent, <<NL>>)
    /\ eresult.ok

\* C26 witness of the refusal: the index is past the last line
C26_Refused ==
    /\ InsertCall
    /\ eedits[1].line > Len(Lines(econtent))
    /\ ~eresult.ok

\* the call was one DeleteLine
DeleteCall == Len(eedits) = 1 /\ eedits[1].op = "DeleteLine"

\* the lines of ls other than x, in their order
Others(ls, x) == SelectSeq(ls, LAMBDA l : l # x)

\* what the statement promises for DeleteLine{x} on the text c
DeletePromise(c, x, r) ==
    IF \E k \in 1..Len(Lines(c)) : Lines(c)[k] = x
    THEN r.ok /\ Lines(r.val) = Others(Lines(c), x)
    ELSE r = Err(NotFound(x))

\* C27: DeleteLine{content} removes every line that equals content and
\* keeps all other lines in their original order; when no line equals
\* content it fails with NotFound.
C27_DeleteLine ==
    DeleteCall => DeletePromise(econtent, eedits[1].content, eresult)

\* the call was one Append
AppendCall == Len(eedits) = 1 /\ eedits[1].op = "Append"

\* a non-empty text that does not end in a newline
OpenEnd(c) == c # <<>> /\ ~EndsWith(c, <<NL>>)

\* C28: Append{content} never fails and returns the original text followed
\* by content, with exactly one newline between them when the original is
\* not empty and does not already end in a newline, and nothing between
\* them otherwise.
C28_Append ==
    AppendCall
    => eresult = Ok(econtent \o (IF OpenEnd(econtent) THEN <<NL>> ELSE <<>>)
                    \o eedits[1].content)

\* C28 witness: something was appended to a text that needed the newline
C28_Witness ==
    /\ AppendCall
    /\ OpenEnd(econtent) /\ eedits[1].content # <<>>
    /\ eresult.ok

\* C28 witness of the other case: the text already ended in a newline
C28_Closed ==
    /\ AppendCall
    /\ EndsWith(econtent, <<NL>>) /\ eedits[1].content # <<>>
    /\ eresult.ok

----------------------------------------------------------------------------
(* Claims about the note resolver (checked under SpecResolve)              *)

Elems(seq) == {seq[k] : k \in 1..Len(seq)}

\* the files of #daily/<date> that match the prefix
InDateDir(c, date, prefix) ==
    IF DailyDir(c, date) = None THEN {}
    ELSE {JoinPath(DailyPath(date), name) :
            name \in {n \in Elems(Unwrap(DailyDir(c, date))) :
                         DateDirMatch(n, prefix, DEFAULT_EXTENSIONS)}}

\* the files of a directory that match the slug, for the title rule
InDir(names, dir, slug, allow_timestamp_prefix) ==
    IF names = None THEN {}
    ELSE {JoinPath(dir, name) :
            name \in {n \in Elems(Unwrap(names)) :
                         PrefixMatch(n, slug, DEFAULT_EXTENSIONS, allow_timestamp_prefix)}}

\* the existing files that the links of the index files list for the slug
InIndex(c, slug) ==
    UNION {{Unwrap(LinkOfLine(c, line, slug)) :
              line \in {l \in Elems(Lines(f.content)) : LinkOfLine(c, l, slug) # None}} :
           f \in {g \in Elems(c.root) :
                    StartsWith(g.name, <<"#">>) /\ HasExtension(g.name, DEFAULT_EXTENSIONS)}}

\* the matching files in the scope of the stage that handles a title slug:
\* today's daily directory, else the note directory, else the index files
ScopeAfterNotes(c, slug, in_note) ==
    IF in_note # {} THEN in_note ELSE InIndex(c, slug)

ScopeAfterDaily(c, slug, in_daily) ==
    IF in_daily # {} THEN in_daily
    ELSE ScopeAfterNotes(c, slug, InDir(c.note, NotePath, slug, FALSE))

InTitleScope(c, slug) ==
    ScopeAfterDaily(c, slug, InDir(DailyDir(c, c.today), DailyPath(c.today), slug, TRUE))

\* the matching files in the scope of the stage that handles the reference
MatchingFiles(c, ref) ==
    IF DateRule(c, ref) # None
    THEN InDateDir(c, Unwrap(DateRule(c, ref))[1], Unwrap(DateRule(c, ref))[2])
    ELSE InTitleScope(c, slugify(ref))

Matching == MatchingFiles(capsa, Normalized(reference))

\* C29: a reference that matches two or more files in the scope of the
\* stage that handles it resolves to Ambiguous with all of them, never to
\* Found.
C29_AmbiguousWithAll ==
    (resolved # Unresolved /\ Cardinality(Matching) >= 2)
    => /\ resolved.kind = "Ambiguous"
       /\ Elems(resolved.paths) = Matching

\* C30: a reference that matches exactly one file in the scope of the stage
\* that handles it resolves to Found with that file; one that matches none
\* resolves to NotFound.
C30_FoundTheOne ==
    resolved # Unresolved
    => /\ Cardinality(Matching) = 1 => \E path \in Matching : resolved = Found(path)
       /\ Matching = {} => resolved = ResolvedNotFound

\* the files a ResolvedNote names
FilesOf(r) ==
    IF r.kind = "Found" THEN {r.path}
    ELSE IF r.kind = "Ambiguous" THEN Elems(r.paths)
    ELSE {}

\* the date and prefix of the path, full-timestamp or time-prefix rule that
\* matches the reference (the three patterns exclude each other), None for
\* the title slug
RuleOfReference == DateRule(capsa, Normalized(reference))

\* the answer r comes from the matching files of one scope and is NotFound
\* exactly when there are none
AnsweredFrom(r, files) ==
    /\ FilesOf(r) \subseteq files
    /\ r = ResolvedNotFound <=> files = {}

\* C31 for a reference that the rule (Some(<<date, prefix>>) or None) handles
FirstRuleWins(c, ref, rule, r) ==
    IF rule # None
    THEN AnsweredFrom(r, InDateDir(c, Unwrap(rule)[1], Unwrap(rule)[2]))
    ELSE AnsweredFrom(r, InTitleScope(c, slugify(ref)))

\* C31: the first rule whose pattern matches the reference gives the result:
\* a path, full-timestamp or time-prefix reference is answered from its
\* date directory alone, NotFound included; a title slug is answered by the
\* first of today's daily directory, the note directory and the index files
\* that has a match.
C31_FirstRuleWins ==
    resolved # Unresolved
    => FirstRuleWins(capsa, Normalized(reference), RuleOfReference, resolved)

\* C31 witness: a date rule answered NotFound although the title rule would
\* have found a file for its prefix
C31_Witness ==
    /\ resolved = ResolvedNotFound
    /\ RuleOfReference # None
    /\ InTitleScope(capsa, Unwrap(RuleOfReference)[2]) # {}

\* C31 witness of the title rule: the note directory answered after today's
\* daily directory had no match
C31_Notes ==
    /\ resolved.kind = "Found"
    /\ RuleOfReference = None
    /\ DailyDir(capsa, capsa.today) # None
    /\ FilesOf(resolved) \subseteq InDir(capsa.note, NotePath, slugify(Normalized(reference)), FALSE)

\* the notes of #daily/<date> whose name, after an optional HHmmSS- prefix,
\* starts with "standup" and ends in an allowed extension
StandupUnder(c, date) == InDir(DailyDir(c, date), DailyPath(date), STANDUP, TRUE)

\* the reference is the title reference "standup", in any letter case
AsksStandup ==
    /\ resolved # Unresolved
    /\ RuleOfReference = None
    /\ slugify(Normalized(reference)) = STANDUP

----------------------------------------------------------------------------
(* Claims about the full-timestamp rule (checked under SpecStamp)          *)

\* the value of digits i..j of s
Field(s, i, j) == SmallValue(SubSeq(s, i, j))

\* 14 ASCII digits: a date with year 1900-2100, month 1-12 and day 1-31,
\* then a time with hour <= 23, minute <= 59 and second <= 59
IsFullTimestamp(s) ==
    /\ Len(s) = 14
    /\ \A i \in 1..14 : IsDigit(s[i])
    /\ Field(s, 1, 4) \in 1900..2100 /\ Field(s, 5, 6) \in 1..12 /\ Field(s, 7, 8) \in 1..31
    /\ Field(s, 9, 10) \in 0..23 /\ Field(s, 11, 12) \in 0..59 /\ Field(s, 13, 14) \in 0..59

\* C32: a reference is handled by the full-timestamp rule exactly when it
\* consists of 14 ASCII digits that form a valid date and a valid time.
C32_FullTimestamp ==
    resolved.kind = "Timestamp"
    => (resolved.stamp # None <=> IsFullTimestamp(reference))

----------------------------------------------------------------------------
(* Claims about the reference extractor (checked under SpecRefs)           *)

\* the (id, destination) pairs of the reference-definition lines
\* "[id]: dest" among the lines from the k-th on, in document order
RECURSIVE DefinitionsFrom(_, _)
DefinitionsFrom(lines, k) ==
    IF k > Len(lines) THEN <<>>
    ELSE (IF ParseRefLine(lines[k]) # None /\ Unwrap(ParseRefLine(lines[k]))[2] # <<>>
          THEN ParseRefLine(lines[k]) ELSE <<>>)
         \o DefinitionsFrom(lines, k + 1)

\* the destination of the first definition of the id, ASCII case ignored
RECURSIVE FirstDefinition(_, _, _)
FirstDefinition(defs, k, ref_id) ==
    IF k > Len(defs) THEN None
    ELSE IF EqIgnoreAsciiCase(defs[k][1], ref_id) THEN Some(defs[k][2])
    ELSE FirstDefinition(defs, k + 1, ref_id)

\* C34: extract_references returns the (id, destination) pairs of all
\* reference-definition lines in document order, one pair for every
\* definition even when an id is defined several times; get_reference_dest
\* returns the destination of the first definition of the id.
C34_AllDefinitions ==
    last.cmd = "extract_references"
    => /\ last.res.out[1] = DefinitionsFrom(Lines(Unwrap(last.before)), 1)
       /\ last.res.out[2]
            = FirstDefinition(DefinitionsFrom(Lines(Unwrap(last.before)), 1), 1,
                              last.args.ref_id)

----------------------------------------------------------------------------
(* Claims about the order of the task states (checked under Spec) *)

\* the last command was a take, a comment or a release that really ran on a
\* file in which task TASK01 was Done
RanOnDone ==
    /\ last.cmd \in {"take", "comment", "release"}
    /\ ~last.args.dry_run
    /\ StatusIn(last.before, TASK01) = Some("Done")

\* the last command was a release without --done that passed the skip of
\* release.rs line 60 (the task had an owner or --force was given)
Reopening ==
    /\ last.cmd = "release"
    /\ ~last.args.done
    /\ last.args.force \/ OwnerIn(last.before, TASK01) # None

C35_Reopened ==
    /\ RanOnDone
    /\ Reopening
    /\ StatusIn(taskfile, TASK01) = Some("Doing")

----------------------------------------------------------------------------
(* Claims about take on a task that has an entry (checked under Spec) *)

\* the entry of task_id in f, written "- [c] [title][id]" with nothing after
\* the "[id]": the entry names no owner
EntryWithoutOwner(f, task_id) ==
    /\ EntryTextIn(f, task_id) # None
    /\ EndsWith(Unwrap(EntryTextIn(f, task_id)), <<"]", "[">> \o task_id \o <<"]">>)

\* the lines of f other than the entry line of task_id are the same in g
SameOtherLines(f, g, task_id) ==
    LET at == Unwrap(find_task_entry_line(Unwrap(f), task_id)).line_num + 1
    IN  /\ Len(FileLines(g)) = Len(FileLines(f))
        /\ \A i \in 1..Len(FileLines(f)) : i # at => FileLines(g)[i] = FileLines(f)[i]

\* C36: a take that succeeds on a task whose entry names no owner keeps the
\* entry's checkbox state (Done stays Done, Doing stays Doing) and its
\* comments, and changes no line of the file other than that entry.
C36_TakeKeepsEntry ==
    (Just("take") /\ last.res.ok /\ EntryWithoutOwner(last.before, last.args.id))
    => /\ StatusIn(taskfile, last.args.id) = StatusIn(last.before, last.args.id)
       /\ CommentsIn(taskfile, last.args.id) = CommentsIn(last.before, last.args.id)
       /\ SameOtherLines(last.before, taskfile, last.args.id)

\* the task of task_id has a checklist entry in f
HasEntry(f, task_id) == StatusIn(f, task_id) \in {Some("Doing"), Some("Done")}

\* the title get_task reads from the entry of task_id in f
TitleIn(f, task_id) == IF TaskIn(f, task_id) = None THEN None ELSE Unwrap(TaskIn(f, task_id)).title

\* C37: a task that has a checklist entry keeps it: after a take or a release,
\* whatever the title and the owner are, the entry line still contains the
\* task's [id] and its title, so the task does not return from Doing or Done
\* to Backlog.
C37_EntryKept ==
    (last.cmd \in {"take", "release"} /\ ~last.args.dry_run
        /\ HasEntry(last.before, TASK01))
    => /\ HasEntry(taskfile, TASK01)
       /\ TitleIn(taskfile, TASK01) = TitleIn(last.before, TASK01)

----------------------------------------------------------------------------
(* Claims about the spellings of a task id (checked under SpecCase) *)

\* the spellings of CaseTaskIds for which get_node_ref finds a definition in f
AcceptedIn(f) ==
    IF f = None THEN {}
    ELSE {id \in CaseTaskIds : get_reference_dest(Unwrap(f), id) # None}

\* the checklist entries of f written with one of the spellings ids
EntriesOf(f, ids) ==
    {k \in 1..Len(FileLines(f)) : \E id \in ids : IsEntryLineOf(FileLines(f)[k], id)}

\* C38: after any sequence of add, take, comment and release commands that
\* starts from an empty task file, the body holds at most one checklist entry
\* per reference definition, counting every spelling of the task id that the
\* reference lookup accepts.
C38_OneEntryPerReference ==
    Cardinality(EntriesOf(taskfile, AcceptedIn(taskfile))) <= 1

----------------------------------------------------------------------------
(* Claims about two concurrent add commands (checked under SpecConc) *)

\* both add commands have returned
ConcDone == \A p \in Procs : race.proc[p].pc = "done"

\* the task id that the add of process p printed
ConcId(p) == race.proc[p].res.out[1]

\* C39: two add commands for different notes whose file reads and writes
\* interleave never report the same task id, and the reference definition of
\* every add that reported success is in the final file.
C39_AddRace ==
    (ConcDone /\ \A p \in Procs : race.proc[p].res.ok)
    => /\ ConcId(1) # ConcId(2)
       /\ \A p \in Procs :
             get_reference_dest(Unwrap(taskfile), ConcId(p)) = Some(race.proc[p].node_ref)

----------------------------------------------------------------------------
(* Claims about --dry-run (checked under SpecOpts) *)

\* the outcome of the last command's call without --dry-run on the file it ran on
WithoutDryRun ==
    CASE last.cmd = "take" ->
            take_run(last.before, last.args.agent, last.args.id, last.args.title,
                     last.args.header, FALSE)
      [] last.cmd = "comment" ->
            comment_run(last.before, last.args.id, last.args.message, last.args.git,
                        last.args.ts, FALSE)
      [] last.cmd = "release" ->
            release_run(last.before, last.args.agent, last.args.ids, last.args.done,
                        last.args.force, last.args.ts, FALSE)

\* C40: a dry-run of take, comment or release succeeds exactly when the same
\* call without --dry-run succeeds on the same file.
C40_DryRunFaithful ==
    (last.cmd \in {"take", "comment", "release"} /\ last.args.dry_run)
    => last.res.ok = WithoutDryRun.ok


====
